---- MODULE Spec2Model ----
(***************************************************************************)
(* Model of the range-resolution and merged-cell reconciliation engine of  *)
(* excel-batch-tool: src/core.py (ExcelProcessor), src/cell_utils.py and   *)
(* the set_cell_content callbacks.                                         *)
(*                                                                         *)
(* A worksheet is modelled the way openpyxl stores it:                     *)
(*   cells   - ws._cells, a partial map from (row, column) to a cell;      *)
(*             Absent = no entry, MergedCell = the read-only placeholder   *)
(*             openpyxl puts on every non-anchor member of a merged range, *)
(*             None = a cell whose value is None, any other integer = the  *)
(*             cell's value;                                               *)
(*   merged  - ws.merged_cells.ranges, a set of rectangles                 *)
(*             <<min_row, min_col, max_row, max_col>>;                     *)
(*   hiddenR / hiddenC - the rows / columns whose dimension is hidden.     *)
(* ws.insert_rows/insert_cols/delete_rows/delete_cols move the entries of  *)
(* ws._cells only: they touch neither ws.merged_cells nor the dimensions.  *)
(***************************************************************************)
EXTENDS Integers, Sequences, FiniteSets, TLC

\* ------------------------------------------------------------------ bounds
GridRows == 4
GridCols == 3
MaxCount == 2
MaxRegions == 2
MaxSpan == 2

Rows == 1..GridRows
Cols == 1..GridCols
Coords == Rows \X Cols

\* ------------------------------------------------------- cell contents
None == 0
Absent == 0 - 1
MergedCell == 0 - 2
NewContent == 99

Tag(p) == 10 * p[1] + p[2]

Min(S) == CHOOSE x \in S : \A y \in S : x <= y
Max(S) == CHOOSE x \in S : \A y \in S : x >= y

\* ------------------------------------------------------------ rectangles
MinRow(m) == m[1]
MinCol(m) == m[2]
MaxRow(m) == m[3]
MaxCol(m) == m[4]

RectCells(m) == {p \in Coords : /\ m[1] <= p[1] /\ p[1] <= m[3]
                                /\ m[2] <= p[2] /\ p[2] <= m[4]}

Anchor(m) == <<m[1], m[2]>>

\* CellRange.__le__ : issubset
IsSubRange(a, b) == /\ b[1] <= a[1] /\ a[3] <= b[3]
                    /\ b[2] <= a[2] /\ a[4] <= b[4]

Disjoint(a, b) == \/ a[3] < b[1] \/ b[3] < a[1]
                  \/ a[4] < b[2] \/ b[4] < a[2]

AllRects == {m \in Rows \X Cols \X Rows \X Cols :
               /\ m[1] <= m[3] /\ m[2] <= m[4]
               /\ m[3] - m[1] < MaxSpan /\ m[4] - m[2] < MaxSpan}

\* the order in which a list built from ws.merged_cells is walked
RectKey(m) == ((m[1] * 10 + m[2]) * 10 + m[3]) * 10 + m[4]

RECURSIVE SetToSeq(_)
SetToSeq(S) ==
  IF S = {} THEN <<>>
  ELSE LET m == CHOOSE x \in S : \A y \in S : RectKey(x) <= RectKey(y)
       IN <<m>> \o SetToSeq(S \ {m})

\* ---------------------------------------------------------- worksheet
Exists(sheet, p) == sheet.cells[p] # Absent

\* cell.value as read: a MergedCell and a freshly created cell read None
CellValue(sheet, p) ==
  IF sheet.cells[p] \in {Absent, MergedCell} THEN None ELSE sheet.cells[p]

\* ws.cell(row, column): creates the entry when there is none
Touch(sheet, p) ==
  IF sheet.cells[p] = Absent THEN [sheet EXCEPT !.cells[p] = None] ELSE sheet

\* ws.max_row / ws.max_column: 1 on an empty sheet
max_row(sheet) ==
  LET used == {p[1] : p \in {q \in Coords : Exists(sheet, q)}}
  IN IF used = {} THEN 1 ELSE Max(used)

max_column(sheet) ==
  LET used == {p[2] : p \in {q \in Coords : Exists(sheet, q)}}
  IN IF used = {} THEN 1 ELSE Max(used)

\* cell.value = v : AttributeError on a MergedCell
SetValue(sheet, p, v) ==
  IF sheet.cells[p] = MergedCell
  THEN [s |-> sheet, ok |-> FALSE]
  ELSE [s |-> [sheet EXCEPT !.cells[p] = v], ok |-> TRUE]

\* ws.merge_cells(range): MultiCellRange.add skips a range contained in an
\* existing one; _clean_merge_range always replaces every cell but the
\* first by a MergedCell; the start cell is created when missing.
merge_cells(sheet, m) ==
  [sheet EXCEPT
     !.merged = IF \E x \in sheet.merged : IsSubRange(m, x)
                THEN @ ELSE @ \cup {m},
     !.cells = [p \in Coords |->
                  IF p \in RectCells(m) /\ p # Anchor(m) THEN MergedCell
                  ELSE IF p = Anchor(m) /\ @[p] = Absent THEN None
                  ELSE @[p]]]

\* ws.unmerge_cells(range): ValueError when the range is contained in no
\* merged range, an error from remove() when it is not itself one; then
\* every cell but the first is deleted from ws._cells in row-major order,
\* with a KeyError at the first one that has no entry.
unmerge_cells(sheet, m) ==
  LET width == m[4] - m[2] + 1
      rank(p) == (p[1] - m[1]) * width + (p[2] - m[2])
      others == RectCells(m) \ {Anchor(m)}
      missing == {rank(p) : p \in {q \in others : ~Exists(sheet, q)}}
      stop == IF missing = {} THEN Cardinality(RectCells(m)) ELSE Min(missing)
  IN IF ~(\E x \in sheet.merged : IsSubRange(m, x)) \/ m \notin sheet.merged
     THEN [s |-> sheet, ok |-> FALSE]
     ELSE [s |-> [sheet EXCEPT
                    !.merged = @ \ {m},
                    !.cells = [p \in Coords |->
                                 IF p \in others /\ rank(p) < stop
                                 THEN Absent ELSE @[p]]],
           ok |-> missing = {}]

\* ws.delete_rows(idx, 1): the rows below idx are made contiguous over the
\* columns 1..max_column and moved up by one; merged ranges stay.
RawDeleteRow(sheet, idx) ==
  LET mr == max_row(sheet)
      mc == max_column(sheet)
  IN [sheet EXCEPT !.cells = [p \in Coords |->
        IF p[1] < idx THEN @[p]
        ELSE IF p[1] + 1 <= mr /\ p[2] <= mc
             THEN (IF @[<<p[1] + 1, p[2]>>] = Absent THEN None
                   ELSE @[<<p[1] + 1, p[2]>>])
             ELSE Absent]]

\* ws.delete_cols(idx, 1)
RawDeleteCol(sheet, idx) ==
  LET mr == max_row(sheet)
      mc == max_column(sheet)
  IN [sheet EXCEPT !.cells = [p \in Coords |->
        IF p[2] < idx THEN @[p]
        ELSE IF p[2] + 1 <= mc /\ p[1] <= mr
             THEN (IF @[<<p[1], p[2] + 1>>] = Absent THEN None
                   ELSE @[<<p[1], p[2] + 1>>])
             ELSE Absent]]

\* ws.insert_rows(idx, amount): the rows idx..max_row are made contiguous
\* and moved down by amount; merged ranges stay.
RawInsertRows(sheet, idx, amount) ==
  LET mr == max_row(sheet)
      mc == max_column(sheet)
  IN [sheet EXCEPT !.cells = [p \in Coords |->
        IF p[1] < idx THEN @[p]
        ELSE IF p[1] < idx + amount THEN Absent
        ELSE IF p[1] - amount <= mr /\ p[2] <= mc
             THEN (IF @[<<p[1] - amount, p[2]>>] = Absent THEN None
                   ELSE @[<<p[1] - amount, p[2]>>])
             ELSE Absent]]

\* ws.insert_cols(idx, amount)
RawInsertCols(sheet, idx, amount) ==
  LET mr == max_row(sheet)
      mc == max_column(sheet)
  IN [sheet EXCEPT !.cells = [p \in Coords |->
        IF p[2] < idx THEN @[p]
        ELSE IF p[2] < idx + amount THEN Absent
        ELSE IF p[2] - amount <= mc /\ p[1] <= mr
             THEN (IF @[<<p[1], p[2] - amount>>] = Absent THEN None
                   ELSE @[<<p[1], p[2] - amount>>])
             ELSE Absent]]

\* ------------------------------------------------- ExcelProcessor helpers
Axis(name) == IF name \in {"delete_rows", "insert_rows", "delete_hidden_rows"}
              THEN "row" ELSE "col"

\* the bound of a range along / across the edited axis
Lo(m, axis) == IF axis = "row" THEN m[1] ELSE m[2]
Hi(m, axis) == IF axis = "row" THEN m[3] ELSE m[4]
CrossLo(m, axis) == IF axis = "row" THEN m[2] ELSE m[1]
CrossHi(m, axis) == IF axis = "row" THEN m[4] ELSE m[3]

\* a range with new bounds along the axis and the old ones across it
Moved(m, axis, lo, hi) ==
  IF axis = "row" THEN <<lo, m[2], hi, m[4]>> ELSE <<m[1], lo, m[3], hi>>

\* _get_data_range: walks 1..max_row x 1..max_column through sheet.cell(),
\* which creates every missing cell of that box, and returns the bounding
\* box of the cells whose value is not None (the whole box when none is).
get_data_range(sheet) ==
  LET mr == max_row(sheet)
      mc == max_column(sheet)
      filled == [sheet EXCEPT !.cells = [p \in Coords |->
                   IF p[1] <= mr /\ p[2] <= mc /\ @[p] = Absent
                   THEN None ELSE @[p]]]
      valued == {p \in Coords : CellValue(sheet, p) # None}
  IN [sheet |-> filled,
      min_row |-> IF valued = {} THEN 1 ELSE Min({p[1] : p \in valued}),
      max_row |-> IF valued = {} THEN mr ELSE Max({p[1] : p \in valued}),
      min_col |-> IF valued = {} THEN 1 ELSE Min({p[2] : p \in valued}),
      max_col |-> IF valued = {} THEN mc ELSE Max({p[2] : p \in valued})]

\* _get_merged_cells_in_range
get_merged_cells_in_range(sheet, start_row, end_row, start_col, end_col) ==
  {m \in sheet.merged : ~(\/ MaxRow(m) < start_row \/ MinRow(m) > end_row
                          \/ MaxCol(m) < start_col \/ MinCol(m) > end_col)}

\* delete_rows / delete_columns: the ranges the call looks at.  The band is
\* intersected with the data range on the other axis.
merged_ranges_intersect(sheet, dr, axis, position, count) ==
  IF axis = "row"
  THEN get_merged_cells_in_range(sheet, position, position + count - 1,
                                 dr.min_col, dr.max_col)
  ELSE get_merged_cells_in_range(sheet, dr.min_row, dr.max_row,
                                 position, position + count - 1)

\* merged_ranges_below / merged_ranges_right
merged_ranges_beyond(sheet, axis, position, count) ==
  {m \in sheet.merged : Lo(m, axis) > position + count - 1}

\* one turn of the loop of _process_merged_cells_in_range
ProcessOneMergedRange(sheet, m, merge_mode) ==
  LET top_left_value == CellValue(sheet, Anchor(m))
      u == unmerge_cells(Touch(sheet, Anchor(m)), m)
  IN IF ~u.ok THEN u
     ELSE IF merge_mode = "unmerge_keep_value"
     THEN IF u.s.cells[Anchor(m)] = MergedCell
          THEN [s |-> u.s, ok |-> FALSE]
          ELSE [s |-> [u.s EXCEPT !.cells = [p \in Coords |->
                         IF p \in RectCells(m) THEN top_left_value ELSE @[p]]],
                ok |-> TRUE]
     ELSE SetValue(u.s, Anchor(m), top_left_value)

RECURSIVE ProcessMergedRanges(_, _, _)
ProcessMergedRanges(sheet, ranges, merge_mode) ==
  IF ranges = <<>> THEN [s |-> sheet, ok |-> TRUE]
  ELSE LET r == ProcessOneMergedRange(sheet, Head(ranges), merge_mode)
       IN IF r.ok THEN ProcessMergedRanges(r.s, Tail(ranges), merge_mode)
          ELSE r

\* _process_merged_cells_in_range
process_merged_cells_in_range(sheet, merged_ranges, merge_mode) ==
  IF merge_mode = "ignore" THEN [s |-> sheet, ok |-> TRUE]
  ELSE ProcessMergedRanges(sheet, SetToSeq(merged_ranges), merge_mode)

\* merge_info_list.append({...}) for every range of the list
RECURSIVE RecordMergeInfo(_, _)
RecordMergeInfo(sheet, ranges) ==
  IF ranges = <<>> THEN <<>>
  ELSE <<[rng |-> Head(ranges), value |-> CellValue(sheet, Anchor(Head(ranges)))]>>
       \o RecordMergeInfo(sheet, Tail(ranges))

RECURSIVE TouchAnchors(_, _)
TouchAnchors(sheet, ranges) ==
  IF ranges = <<>> THEN sheet
  ELSE TouchAnchors(Touch(sheet, Anchor(Head(ranges))), Tail(ranges))

\* a step 1 that leaves every recorded range merged
UnmergeRecorded_skip(sheet, infos) == sheet

\* delete_rows step 1: unmerge what is still merged; errors are swallowed
RECURSIVE UnmergeRecorded(_, _)
UnmergeRecorded(sheet, infos) ==
  IF infos = <<>> THEN sheet
  ELSE LET m == Head(infos).rng
       IN UnmergeRecorded(IF m \in sheet.merged THEN unmerge_cells(sheet, m).s
                          ELSE sheet,
                          Tail(infos))

RawDeleteUnit(sheet, axis, idx) ==
  IF axis = "row" THEN RawDeleteRow(sheet, idx) ELSE RawDeleteCol(sheet, idx)

\* delete_rows step 3, one record of merge_info_list
RecreateOne(sheet, info, axis, position, count) ==
  LET to_delete == position..(position + count - 1)
      lo == Lo(info.rng, axis)
      hi == Hi(info.rng, axis)
      new_min == lo - Cardinality({r \in to_delete : r < lo})
      new_max == hi - Cardinality({r \in to_delete : r <= hi})
      new_range == Moved(info.rng, axis, new_min, new_max)
  IN IF lo \in to_delete THEN sheet
     ELSE IF new_min < 1 \/ new_max < 1 \/ new_min > new_max THEN sheet
     ELSE IF new_min = new_max
             /\ CrossLo(info.rng, axis) = CrossHi(info.rng, axis) THEN sheet
     ELSE IF new_min >= 1 /\ new_max >= 1 /\ new_min < new_max
     THEN SetValue(merge_cells(sheet, new_range), Anchor(new_range),
                   info.value).s
     ELSE sheet

RECURSIVE RecreateAll(_, _, _, _, _)
RecreateAll(sheet, infos, axis, position, count) ==
  IF infos = <<>> THEN sheet
  ELSE RecreateAll(RecreateOne(sheet, Head(infos), axis, position, count),
                   Tail(infos), axis, position, count)

\* delete_rows/delete_columns up to "merged_ranges = list(set(...))"
CollectAffected(sheet, axis, position, count) ==
  LET Found(dr, inter, beyond) ==
        [sheet |-> dr.sheet, intersect |-> inter, beyond |-> beyond,
         recon |-> inter \cup beyond]
      In(dr) ==
        Found(dr, merged_ranges_intersect(dr.sheet, dr, axis, position, count),
              merged_ranges_beyond(dr.sheet, axis, position, count))
  IN In(get_data_range(sheet))

\* the two branches that fill merge_info_list; ok = FALSE when
\* _process_merged_cells_in_range raised
FillMergeInfo(sheet, recon, beyond, merge_mode) ==
  IF recon # {} /\ merge_mode # "ignore"
  THEN LET Recorded(r, below) ==
             IF r.ok
             THEN [s |-> TouchAnchors(r.s, below), ok |-> TRUE,
                   info |-> RecordMergeInfo(r.s, below)]
             ELSE [s |-> r.s, ok |-> FALSE, info |-> <<>>]
       IN Recorded(process_merged_cells_in_range(sheet, recon, merge_mode),
                   SetToSeq(beyond))
  ELSE IF recon # {}
  THEN [s |-> TouchAnchors(sheet, SetToSeq(recon)), ok |-> TRUE,
        info |-> RecordMergeInfo(sheet, SetToSeq(recon))]
  ELSE [s |-> sheet, ok |-> TRUE, info |-> <<>>]

\* for idx in sorted(to_delete, reverse=True): sheet.delete_rows(idx, 1)
RECURSIVE RawDeleteBand(_, _, _, _)
RawDeleteBand(sheet, axis, position, left) ==
  IF left = 0 THEN sheet
  ELSE RawDeleteBand(RawDeleteUnit(sheet, axis, position + left - 1),
                     axis, position, left - 1)

\* the body of delete_rows/delete_columns for one sheet
DeleteOnSheet(sheet, axis, position, count, merge_mode) ==
  LET Reconcile(f) ==
        IF ~f.ok THEN [s |-> f.s, ok |-> FALSE]
        ELSE [s |-> RecreateAll(
                      RawDeleteBand(UnmergeRecorded(f.s, f.info),
                                    axis, position, count),
                      f.info, axis, position, count),
              ok |-> TRUE]
      Process(c) ==
        Reconcile(FillMergeInfo(c.sheet, c.recon, c.beyond, merge_mode))
  IN Process(CollectAffected(sheet, axis, position, count))

\* delete_rows/delete_columns over file_paths: the first file that raises
\* ends the call
RECURSIVE DeleteOnFiles(_, _, _, _, _, _)
DeleteOnFiles(fs, i, axis, position, count, merge_mode) ==
  IF i > Len(fs) THEN [files |-> fs, ok |-> TRUE]
  ELSE LET Then(r) ==
             IF r.ok
             THEN DeleteOnFiles([fs EXCEPT ![i] = r.s], i + 1, axis,
                                position, count, merge_mode)
             ELSE [files |-> [fs EXCEPT ![i] = r.s], ok |-> FALSE]
       IN Then(DeleteOnSheet(fs[i], axis, position, count, merge_mode))

\* ------------------------------------------------------------- state
VARIABLES
  files,   \* processor.workbooks: the sheet worked on in each loaded file
  start,   \* files as they were when the running call began
  op,      \* the call being executed and its arguments
  pc,      \* position inside the call
  cur,     \* index of the file the loop of the call is at
  ctx      \* locals of the call: reconciliation set, merge_info_list, ...

vars == <<files, start, op, pc, cur, ctx>>

MergeModes == {"ignore", "unmerge_only", "unmerge_keep_value"}

NoOp == [name |-> "none", position |-> 0, count |-> 0, merge_mode |-> "ignore"]

NoCalls == [p \in Coords |-> 0]

NoCtx == [intersect |-> {}, beyond |-> {}, recon |-> {}, info |-> <<>>,
          left |-> 0, todo |-> {}, found |-> {}, report |-> <<>>,
          ranges |-> <<>>, range_str |-> <<>>, history |-> <<>>,
          calls |-> NoCalls, writes |-> NoCalls, success |-> TRUE]

\* ----------------------------------------------- sheets a run starts on
FillKinds == {"empty", "corner", "full"}

\* the sets of at most n pairwise disjoint ranges
RECURSIVE DisjointSets(_)
DisjointSets(n) ==
  IF n = 0 THEN {{}}
  ELSE LET smaller == DisjointSets(n - 1)
       IN smaller \cup {S \cup {m} : <<S, m>> \in
                          {x \in smaller \X AllRects :
                             \A a \in x[1] : Disjoint(a, x[2])}}

RegionSets == DisjointSets(MaxRegions)

\* the sets of at most one range
SingleRegionSets == DisjointSets(1)

\* A workbook as openpyxl loads it: the non-anchor members of every merged
\* range are MergedCells, cells the file does not mention have no entry.
\*   "full"   every plain cell and every anchor holds a value of its own
\*   "corner" only A1 holds a value
\*   "empty"  no cell holds a value
LoadedSheet(regions, fill) ==
  LET anchors == {Anchor(m) : m \in regions}
      members == UNION {RectCells(m) : m \in regions}
      valued(p) == fill = "full" \/ (fill = "corner" /\ p = <<1, 1>>)
  IN [cells |-> [p \in Coords |->
                   IF p \in members /\ p \notin anchors THEN MergedCell
                   ELSE IF valued(p) THEN Tag(p)
                   ELSE IF p \in anchors THEN None
                   ELSE Absent],
      merged |-> regions,
      hiddenR |-> {},
      hiddenC |-> {}]

Init ==
  /\ \E regions \in RegionSets, fill \in FillKinds :
       files = <<LoadedSheet(regions, fill)>>
  /\ start = files
  /\ op = NoOp
  /\ pc = "idle"
  /\ cur = 1
  /\ ctx = NoCtx

Sheet == files[cur]
AxisLen(axis) == IF axis = "row" THEN GridRows ELSE GridCols

\* ------------------------------------------ delete_rows / delete_columns
DeleteBegin ==
  /\ pc = "idle"
  /\ \E name \in {"delete_rows", "delete_columns"}, count \in 1..MaxCount,
        merge_mode \in MergeModes :
       \E position \in 1..AxisLen(Axis(name)) :
         op' = [name |-> name, position |-> position, count |-> count,
                merge_mode |-> merge_mode]
  /\ start' = files
  /\ pc' = "collect"
  /\ cur' = 1
  /\ ctx' = NoCtx
  /\ UNCHANGED files

\* data range, intersecting ranges, ranges beyond the band, their union
DeleteCollect ==
  /\ pc = "collect"
  /\ LET c == CollectAffected(Sheet, Axis(op.name), op.position, op.count)
     IN /\ files' = [files EXCEPT ![cur] = c.sheet]
        /\ ctx' = [ctx EXCEPT !.intersect = c.intersect, !.beyond = c.beyond,
                              !.recon = c.recon, !.info = <<>>,
                              !.left = op.count]
  /\ pc' = "process"
  /\ UNCHANGED <<start, op, cur>>

\* the two branches that fill merge_info_list
DeleteProcess ==
  /\ pc = "process"
  /\ LET f == FillMergeInfo(Sheet, ctx.recon, ctx.beyond, op.merge_mode)
     IN /\ files' = [files EXCEPT ![cur] = f.s]
        /\ ctx' = [ctx EXCEPT !.info = f.info]
        /\ pc' = IF ~f.ok THEN "failed"
                 ELSE IF f.info # <<>> THEN "unmerge" ELSE "raw"
  /\ UNCHANGED <<start, op, cur>>

\* step 1: unmerge every recorded range
DeleteUnmerge ==
  /\ pc = "unmerge"
  /\ files' = [files EXCEPT ![cur] = UnmergeRecorded(Sheet, ctx.info)]
  /\ pc' = "raw"
  /\ UNCHANGED <<start, op, cur, ctx>>

\* step 2 (or the direct deletion): one unit per step, highest first
DeleteRaw ==
  /\ pc = "raw"
  /\ ctx.left > 0
  /\ files' = [files EXCEPT ![cur] =
                 RawDeleteUnit(Sheet, Axis(op.name),
                               op.position + ctx.left - 1)]
  /\ ctx' = [ctx EXCEPT !.left = @ - 1]
  /\ UNCHANGED <<start, op, pc, cur>>

\* step 3: recreate the recorded ranges at their new place
DeleteRecreate ==
  /\ pc = "raw"
  /\ ctx.left = 0
  /\ files' = [files EXCEPT ![cur] =
                 RecreateAll(Sheet, ctx.info, Axis(op.name),
                             op.position, op.count)]
  /\ pc' = "save"
  /\ UNCHANGED <<start, op, cur, ctx>>

\* wb.save(temp_path), then the next file of file_paths
SaveAndNext ==
  /\ pc = "save"
  /\ IF cur < Len(files)
     THEN /\ cur' = cur + 1
          /\ pc' = IF op.name \in {"delete_rows", "delete_columns"}
                   THEN "collect" ELSE "insert"
     ELSE /\ pc' = "done"
          /\ UNCHANGED cur
  /\ UNCHANGED <<files, start, op, ctx>>

\* ------------------------------------------ insert_rows / insert_columns
InsertBegin ==
  /\ pc = "idle"
  /\ \E name \in {"insert_rows", "insert_columns"}, count \in 1..MaxCount :
       \E position \in 1..AxisLen(Axis(name)) :
         /\ \A i \in 1..Len(files) :
              (IF Axis(name) = "row" THEN max_row(files[i])
               ELSE max_column(files[i])) + count <= AxisLen(Axis(name))
         /\ op' = [name |-> name, position |-> position, count |-> count,
                   merge_mode |-> "ignore"]
  /\ start' = files
  /\ pc' = "insert"
  /\ cur' = 1
  /\ ctx' = NoCtx
  /\ UNCHANGED files

InsertUnits ==
  /\ pc = "insert"
  /\ files' = [files EXCEPT ![cur] =
                 IF Axis(op.name) = "row"
                 THEN RawInsertRows(Sheet, op.position, op.count)
                 ELSE RawInsertCols(Sheet, op.position, op.count)]
  /\ pc' = "save"
  /\ UNCHANGED <<start, op, cur, ctx>>

Next ==
  \/ DeleteBegin
  \/ DeleteCollect
  \/ DeleteProcess
  \/ DeleteUnmerge
  \/ DeleteRaw
  \/ DeleteRecreate
  \/ SaveAndNext
  \/ InsertBegin
  \/ InsertUnits

Spec == Init /\ [][Next]_vars

\* ================================================================ claims
IsDelete == op.name \in {"delete_rows", "delete_columns"}
IsInsert == op.name \in {"insert_rows", "insert_columns"}
OpAxis == Axis(op.name)
BandEnd == op.position + op.count - 1
Band == op.position..BandEnd
Files == 1..Len(files)

\* a range of the sheet as it was when the call began, relative to the band
AfterBand(m) == Lo(m, OpAxis) > BandEnd
MeetsBand(m) == Lo(m, OpAxis) <= BandEnd /\ Hi(m, OpAxis) >= op.position

\* a range of more than one cell
Proper(m) == Cardinality(RectCells(m)) > 1

\* the range moved by d units along the axis of the call
ShiftBy(m, d) == Moved(m, OpAxis, Lo(m, OpAxis) + d, Hi(m, OpAxis) + d)

\* C1: after delete_rows/delete_columns of N units at P, under every merge
\* policy, every merged range (of more than one cell) that lay entirely
\* after the band is merged again N units earlier along the axis, with the
\* same bounds across it and the same anchor value, whatever its shape.
C1_RegionsAfterBandShifted ==
  (IsDelete /\ pc = "done") =>
    \A i \in Files : \A m \in start[i].merged :
      (Proper(m) /\ AfterBand(m)) =>
        /\ ShiftBy(m, 0 - op.count) \in files[i].merged
        /\ CellValue(files[i], Anchor(ShiftBy(m, 0 - op.count)))
             = CellValue(start[i], Anchor(m))

\* C2: under unmerge_keep_value, a range (of more than one cell) entirely
\* after the band is, from
\* its unmerging until its recreation, not merged while every one of its
\* member cells (moving up with the units deleted so far) holds the anchor
\* value; when the call is done it is merged at the shifted place with the
\* anchor value in its top-left cell.
C2_KeepValueAfterBand ==
  (IsDelete /\ op.merge_mode = "unmerge_keep_value") =>
    \A m \in start[cur].merged :
      (Proper(m) /\ AfterBand(m)) =>
        /\ (pc \in {"unmerge", "raw"}) =>
             /\ m \notin files[cur].merged
             /\ \A p \in RectCells(ShiftBy(m, ctx.left - op.count)) :
                  CellValue(files[cur], p) = CellValue(start[cur], Anchor(m))
        /\ (pc = "done") =>
             /\ ShiftBy(m, 0 - op.count) \in files[cur].merged
             /\ CellValue(files[cur], Anchor(ShiftBy(m, 0 - op.count)))
                  = CellValue(start[cur], Anchor(m))

\* where the recreation of a range that lay after the band puts it
ImagesOfRangesAfterBand(i) ==
  {ShiftBy(n, 0 - op.count) : n \in {x \in start[i].merged : AfterBand(x)}}

\* C3: when the min row (column) of a merged range is one of the deleted
\* units, the call ends without error and leaves no merged range derived
\* from it: neither the range itself nor the range with its bounds
\* recomputed, under each merge policy, single-cell ranges included.
C3_NoRegionWhenAnchorDeleted ==
  IsDelete =>
    /\ pc # "failed"
    /\ (pc = "done") =>
         \A i \in Files : \A m \in start[i].merged :
           (Lo(m, OpAxis) \in Band) =>
             \A d \in {m, Moved(m, OpAxis, op.position,
                             Hi(m, OpAxis) - Cardinality(
                               {r \in Band : r <= Hi(m, OpAxis)}))} :
               d \in files[i].merged => d \in ImagesOfRangesAfterBand(i)

SameValues(a, b) == \A p \in Coords : CellValue(a, p) = CellValue(b, p)

BeforeFirstRawDelete == pc = "raw" /\ ctx.left = op.count

Survives(p) == Lo(<<p[1], p[2], p[1], p[2]>>, OpAxis) \notin Band
AfterDeletion(p) ==
  LET before == Cardinality({r \in Band : r < Lo(<<p[1], p[2], p[1], p[2]>>, OpAxis)})
  IN IF OpAxis = "row" THEN <<p[1] - before, p[2]>> ELSE <<p[1], p[2] - before>>

\* C5: under unmerge_keep_value every merged range (of more than one cell)
\* that meets the band is
\* unmerged before any unit is deleted, every member cell holds the anchor
\* value when the first unit is deleted, and every member cell that survives
\* holds it when the call is done.
C5_KeepValueBroadcastBeforeDelete ==
  (IsDelete /\ op.merge_mode = "unmerge_keep_value") =>
    \A m \in start[cur].merged :
      (Proper(m) /\ MeetsBand(m)) =>
        /\ (pc = "raw") => m \notin files[cur].merged
        /\ BeforeFirstRawDelete =>
             \A p \in RectCells(m) :
               CellValue(files[cur], p) = CellValue(start[cur], Anchor(m))
        /\ (pc = "done") =>
             \A p \in RectCells(m) :
               Survives(p) =>
                 CellValue(files[cur], AfterDeletion(p))
                   = CellValue(start[cur], Anchor(m))

\* C7: insert_rows/insert_columns of N units at P moves every merged range
\* (of more than one cell) whose min bound along the axis is >= P by N along it, its anchor value
\* with it, and leaves every range that ends before P as it was.
C7_InsertShiftsRegions ==
  (IsInsert /\ pc = "done") =>
    \A i \in Files : \A m \in {x \in start[i].merged : Proper(x)} :
      /\ (Lo(m, OpAxis) >= op.position) =>
           /\ ShiftBy(m, op.count) \in files[i].merged
           /\ CellValue(files[i], Anchor(ShiftBy(m, op.count)))
                = CellValue(start[i], Anchor(m))
      /\ (Hi(m, OpAxis) < op.position) =>
           /\ m \in files[i].merged
           /\ CellValue(files[i], Anchor(m)) = CellValue(start[i], Anchor(m))

\* ============================== delete_hidden_rows / delete_hidden_columns
NumFiles == 2
MaxHidden == 2

IsHidden == op.name \in {"delete_hidden_rows", "delete_hidden_columns"}
HiddenOf(sheet, axis) == IF axis = "row" THEN sheet.hiddenR ELSE sheet.hiddenC
Unhide(sheet, axis, unit) ==
  IF axis = "row" THEN [sheet EXCEPT !.hiddenR = @ \ {unit}]
  ELSE [sheet EXCEPT !.hiddenC = @ \ {unit}]
WithHidden(sheet, axis, units) ==
  IF axis = "row" THEN [sheet EXCEPT !.hiddenR = units]
  ELSE [sheet EXCEPT !.hiddenC = units]

NotReported == [said |-> FALSE, units |-> {}]

\* The batch: the first workbook may carry a merged range, the others are
\* plain; every workbook has its own hidden rows or hidden columns.
HiddenChoices(axis, n) ==
  {h \in SUBSET (1..AxisLen(axis)) : Cardinality(h) <= n}

InitHidden ==
  /\ \E axis \in {"row", "column"}, regions \in SingleRegionSets :
       \E h1 \in HiddenChoices(axis, MaxHidden),
          rest \in [2..NumFiles -> HiddenChoices(axis, 1)] :
         files = [i \in 1..NumFiles |->
                    IF i = 1
                    THEN WithHidden(LoadedSheet(regions, "full"), axis, h1)
                    ELSE WithHidden(LoadedSheet({}, "full"), axis, rest[i])]
  /\ start = files
  /\ op = NoOp
  /\ pc = "idle"
  /\ cur = 1
  /\ ctx = NoCtx

HiddenBegin ==
  /\ pc = "idle"
  /\ \E name \in {"delete_hidden_rows", "delete_hidden_columns"},
        merge_mode \in MergeModes :
       op' = [name |-> name, position |-> 0, count |-> 1,
              merge_mode |-> merge_mode]
  /\ start' = files
  /\ pc' = "scan"
  /\ cur' = 1
  /\ ctx' = [NoCtx EXCEPT !.report = [i \in 1..Len(files) |-> NotReported]]
  /\ UNCHANGED files

\* the scan of the current workbook's sheet for hidden units; a sheet
\* without any is reported and skipped
HiddenScan ==
  /\ pc = "scan"
  /\ LET hidden == HiddenOf(Sheet, Axis(op.name))
     IN IF hidden = {}
        THEN /\ ctx' = [ctx EXCEPT !.report[cur] =
                          [said |-> TRUE, units |-> {}]]
             /\ pc' = "next"
        ELSE /\ ctx' = [ctx EXCEPT !.todo = hidden, !.found = hidden]
             /\ pc' = "delete"
  /\ UNCHANGED <<files, start, op, cur>>

\* one turn of "for row in hidden_rows_sorted": the flag is cleared, then
\* self.delete_rows(file_paths, sheet_indexes, row, 1, merge_mode) runs over
\* the whole batch; after the last turn the sheet's report is written
HiddenDeleteUnit ==
  /\ pc = "delete"
  /\ ctx.todo # {}
  /\ LET axis == Axis(op.name)
         unit == Max(ctx.todo)
         cleared == [files EXCEPT ![cur] = Unhide(@, axis, unit)]
         todo == ctx.todo \ {unit}
     IN \E r \in {DeleteOnFiles(cleared, 1, axis, unit, 1, op.merge_mode)} :
        /\ files' = r.files
        /\ ctx' = IF r.ok /\ todo = {}
                  THEN [ctx EXCEPT !.todo = todo,
                                   !.report[cur] =
                                     [said |-> TRUE, units |-> ctx.found]]
                  ELSE [ctx EXCEPT !.todo = todo]
        /\ pc' = IF ~r.ok THEN "failed"
                 ELSE IF todo = {} THEN "next" ELSE "delete"
  /\ UNCHANGED <<start, op, cur>>

\* wb.save(temp_path), then the next file of file_paths
HiddenNext ==
  /\ pc = "next"
  /\ IF cur < Len(files)
     THEN /\ cur' = cur + 1
          /\ pc' = "scan"
     ELSE /\ pc' = "done"
          /\ UNCHANGED cur
  /\ UNCHANGED <<files, start, op, ctx>>

NextHidden ==
  \/ HiddenBegin
  \/ HiddenScan
  \/ HiddenDeleteUnit
  \/ HiddenNext

SpecHidden == InitHidden /\ [][NextHidden]_vars

\* the cells of sheet i that belonged to no merged range when the call began
PlainAtStart(i) ==
  Coords \ UNION {RectCells(m) : m \in start[i].merged}

Along(p, axis) == IF axis = "row" THEN p[1] ELSE p[2]
MovedBack(p, axis, d) ==
  IF axis = "row" THEN <<p[1] - d, p[2]>> ELSE <<p[1], p[2] - d>>

\* C6: when delete-hidden has run over a batch, every sheet has lost exactly
\* the units that were hidden on that sheet when the call began: each other
\* unit keeps its cells, moved up by the number of that sheet's hidden units
\* before it, nothing is left behind the last kept unit, and the sheet's
\* report names exactly its own hidden units (none for a sheet that had none,
\* which is unchanged).
C6_HiddenUnitsOfEachSheetOnly ==
  (pc = "done" /\ IsHidden) =>
    \A i \in Files :
      LET axis == Axis(op.name)
          hidden == HiddenOf(start[i], axis)
          kept == (1..AxisLen(axis)) \ hidden
      IN /\ ctx.report[i] = [said |-> TRUE, units |-> hidden]
         /\ \A p \in PlainAtStart(i) :
              IF Along(p, axis) \in hidden THEN TRUE
              ELSE CellValue(files[i],
                     MovedBack(p, axis,
                       Cardinality({u \in hidden : u < Along(p, axis)})))
                   = CellValue(start[i], p)
         /\ \A p \in Coords :
              Along(p, axis) > Cardinality(kept) =>
                CellValue(files[i], p) = None

\* ===================================== process_cell_ranges and its callers
RangeRows == 2
RangeCols == 2
MaxRanges == 2

\* A cell reference such as "B2" is the pair <<column letter index, row>>;
\* a token of parse_cell_range's result is <<start_cell, end_cell>>.
CellRefs == (1..RangeCols) \X (1..RangeRows)

\* a reference the pattern ([A-Za-z]+)(\d+) does not match, such as "??"
BadRef == <<0, 0>>
ValidRef(cell_ref) == cell_ref # BadRef

\* get_cell_coordinates: "B2" -> (row 2, column 2); it raises ValueError on
\* a reference that is not valid
get_cell_coordinates(cell_ref) == <<cell_ref[2], cell_ref[1]>>

\* the place in the order of visits where get_cell_coordinates raises
Raise == <<0, 0>>

RangeLists ==
  UNION {[1..n -> CellRefs \X CellRefs] : n \in 1..MaxRanges}

\* the coordinates one token makes process_cell_ranges visit, in the order
\* of its loops (a single cell, or the normalised rectangle row by row)
CellsOfToken(token) ==
  LET a == get_cell_coordinates(token[1])
      b == get_cell_coordinates(token[2])
      min_row == Min({a[1], b[1]})
      max_rw == Max({a[1], b[1]})
      min_col == Min({a[2], b[2]})
      max_col == Max({a[2], b[2]})
      width == max_col - min_col + 1
  IN IF ~ValidRef(token[1]) \/ ~ValidRef(token[2]) THEN <<Raise>>
     ELSE IF token[1] = token[2] THEN <<a>>
     ELSE [k \in 1..((max_rw - min_row + 1) * width) |->
             <<min_row + ((k - 1) \div width), min_col + ((k - 1) % width)>>]

RECURSIVE CellsOfRanges(_)
CellsOfRanges(cell_ranges) ==
  IF cell_ranges = <<>> THEN <<>>
  ELSE CellsOfToken(Head(cell_ranges)) \o CellsOfRanges(Tail(cell_ranges))

\* some merged range that holds p (the first one the loop over
\* sheet.merged_cells.ranges meets)
InMerged(sheet, p) == \E m \in sheet.merged : p \in RectCells(m)
RangeOf(sheet, p) == CHOOSE m \in sheet.merged : p \in RectCells(m)

FuncKinds == {"apply_font_color", "set_cell_content",
              "set_cell_content_module", "set_cell_content_operations"}

\* "target.value = content" on the state of a run
Assign(st, p) ==
  LET r == SetValue(Touch(st.sheet, p), p, NewContent)
  IN IF r.ok
     THEN [st EXCEPT !.sheet = r.s, !.writes[p] = @ + 1]
     ELSE [st EXCEPT !.ok = FALSE]

\* a swallowed failure: "except Exception" inside the per-cell function
Swallow(st) == [st EXCEPT !.ok = TRUE]

\* one invocation process_func(cell); ok = FALSE when it raises
ApplyFunc(kind, st, p) ==
  IF kind = "apply_font_color" THEN st
  ELSE IF kind = "set_cell_content" THEN Assign(st, p)
  ELSE IF kind = "set_cell_content_module"
  THEN Swallow(Assign(st, IF InMerged(st.sheet, p)
                          THEN Anchor(RangeOf(st.sheet, p)) ELSE p))
  ELSE IF InMerged(st.sheet, p)
  THEN IF p = Anchor(RangeOf(st.sheet, p))
       THEN Swallow(Assign(st, p)) ELSE st
  ELSE Swallow(Assign(st, p))

\* "if cell_coord in processed_cells: continue"
AlreadyProcessed_never(processed, p) == FALSE
AlreadyProcessed(processed, p) == p \in processed

\* the loops of process_cell_ranges over the coordinates to visit; the
\* first invocation that raises ends them
RECURSIVE VisitCells(_, _, _)
VisitCells(st, todo, kind) ==
  IF todo = <<>> THEN st
  ELSE LET p == Head(todo)
       IN IF p = Raise THEN [st EXCEPT !.ok = FALSE]
          ELSE IF AlreadyProcessed(st.processed, p)
          THEN VisitCells(st, Tail(todo), kind)
          ELSE LET called == [st EXCEPT !.sheet = Touch(@, p),
                                        !.calls[p] = @ + 1]
                   r == ApplyFunc(kind, called, p)
               IN IF r.ok
                  THEN VisitCells([r EXCEPT !.processed = @ \cup {p}],
                                  Tail(todo), kind)
                  ELSE r

\* process_cell_ranges(sheet, cell_ranges, process_func); ok is the
\* 'success' of the returned dict
process_cell_ranges(st, cell_ranges, kind) ==
  VisitCells([st EXCEPT !.processed = {}], CellsOfRanges(cell_ranges), kind)

\* ExcelProcessor.modify_cell_content, "特殊处理合并单元格的情况": a token
\* naming a single cell inside a merged range writes that range's first cell
RECURSIVE WriteAnchorsOfSingles(_, _)
WriteAnchorsOfSingles(st, cell_ranges) ==
  IF cell_ranges = <<>> \/ ~st.ok THEN st
  ELSE LET token == Head(cell_ranges)
           p == get_cell_coordinates(token[1])
       IN WriteAnchorsOfSingles(
            IF token[1] = token[2] /\ ~ValidRef(token[1])
            THEN [st EXCEPT !.ok = FALSE]
            ELSE IF token[1] = token[2] /\ InMerged(st.sheet, p)
            THEN Assign(st, Anchor(RangeOf(st.sheet, p))) ELSE st,
            Tail(cell_ranges))

RunState(sheet) ==
  [sheet |-> sheet, calls |-> NoCalls, writes |-> NoCalls,
   processed |-> {}, ok |-> TRUE]

InitRange ==
  /\ \E regions \in SingleRegionSets :
       files = <<LoadedSheet(regions, "full")>>
  /\ start = files
  /\ op = NoOp
  /\ pc = "idle"
  /\ cur = 1
  /\ ctx = NoCtx

\* the common ending of the four handlers
Finished(name, cell_ranges, st) ==
  /\ op' = [NoOp EXCEPT !.name = name]
  /\ start' = files
  /\ files' = [files EXCEPT ![cur] = st.sheet]
  /\ ctx' = [NoCtx EXCEPT !.ranges = cell_ranges, !.calls = st.calls,
                          !.writes = st.writes, !.success = st.ok]
  /\ pc' = "done"
  /\ UNCHANGED cur

\* change_font_color with range_mode 'specific'
ChangeFontColor ==
  /\ pc = "idle"
  /\ \E cell_ranges \in RangeLists :
       Finished("change_font_color", cell_ranges,
                process_cell_ranges(RunState(Sheet), cell_ranges,
                                    "apply_font_color"))

\* ExcelProcessor.modify_cell_content
ModifyCellContent ==
  /\ pc = "idle"
  /\ \E cell_ranges \in RangeLists :
       LET pre == WriteAnchorsOfSingles(RunState(Sheet), cell_ranges)
       IN Finished("modify_cell_content", cell_ranges,
                   IF pre.ok
                   THEN process_cell_ranges(pre, cell_ranges,
                                            "set_cell_content")
                   ELSE pre)

\* cell_format_module.modify_cell_content
ModifyCellContentModule ==
  /\ pc = "idle"
  /\ \E cell_ranges \in RangeLists :
       Finished("modify_cell_content_module", cell_ranges,
                process_cell_ranges(RunState(Sheet), cell_ranges,
                                    "set_cell_content_module"))

\* cell_format_operations.modify_cell_content
ModifyCellContentOperations ==
  /\ pc = "idle"
  /\ \E cell_ranges \in RangeLists :
       Finished("modify_cell_content_operations", cell_ranges,
                process_cell_ranges(RunState(Sheet), cell_ranges,
                                    "set_cell_content_operations"))

NextRange ==
  \/ ChangeFontColor
  \/ ModifyCellContent
  \/ ModifyCellContentModule
  \/ ModifyCellContentOperations

SpecRange == InitRange /\ [][NextRange]_vars

IsRangeOp ==
  op.name \in {"change_font_color", "modify_cell_content",
               "modify_cell_content_module",
               "modify_cell_content_operations"}
IsContentOp == IsRangeOp /\ op.name # "change_font_color"

\* the union of the listed ranges, whatever the order of the endpoints
TokenCells(token) ==
  LET a == get_cell_coordinates(token[1])
      b == get_cell_coordinates(token[2])
  IN {p \in Coords :
        /\ Min({a[1], b[1]}) <= p[1] /\ p[1] <= Max({a[1], b[1]})
        /\ Min({a[2], b[2]}) <= p[2] /\ p[2] <= Max({a[2], b[2]})}
ListedCells == UNION {TokenCells(ctx.ranges[k]) : k \in 1..Len(ctx.ranges)}

Reversed(token) ==
  token[1][1] > token[2][1] \/ token[1][2] > token[2][2]

RegionsTouched ==
  {m \in start[1].merged : RectCells(m) \cap ListedCells # {}}

\* C9: after a content modification, every merged range holding a listed
\* coordinate has the new content in its first cell (also when that cell is
\* not listed), that cell was written once, and no other cell of the range
\* was written.
C9_AnchorWrittenOncePerRegion ==
  (pc = "done" /\ IsContentOp) =>
    \A m \in RegionsTouched :
      /\ CellValue(files[1], Anchor(m)) = NewContent
      /\ ctx.writes[Anchor(m)] = 1
      /\ \A p \in RectCells(m) \ {Anchor(m)} : ctx.writes[p] = 0

\* C10: process_cell_ranges applies the per-cell function to every listed
\* coordinate even when an invocation raised: a failing cell does not stop
\* the cells after it.
C10_FailingCellDoesNotStopTheRest ==
  (pc = "done" /\ IsRangeOp) =>
    \A p \in ListedCells : ctx.calls[p] >= 1

\* ============================================= range strings as typed
\* A range string is the sequence of its comma-separated tokens, a token the
\* sequence of its colon-separated parts: "A1,B1:B2" is
\* << <<A1>>, <<B1, B2>> >>.
RawTokens ==
  [1..1 -> CellRefs \cup {BadRef}] \cup [1..2 -> CellRefs \cup {BadRef}]
    \cup {<<r, r, r>> : r \in CellRefs}

RangeStrings == UNION {[1..n -> RawTokens] : n \in 1..MaxRanges}

\* parse_cell_range: "start, end = r.split(':')" raises on a token of more
\* than two parts; a token without colon becomes (r, r)
parse_cell_range(range_str) ==
  IF \E k \in 1..Len(range_str) : Len(range_str[k]) > 2
  THEN [ok |-> FALSE, ranges |-> <<>>]
  ELSE [ok |-> TRUE,
        ranges |-> [k \in 1..Len(range_str) |->
                      IF Len(range_str[k]) = 1
                      THEN <<range_str[k][1], range_str[k][1]>>
                      ELSE <<range_str[k][1], range_str[k][2]>>]]

Handlers == {"change_font_color", "modify_cell_content",
             "modify_cell_content_module", "modify_cell_content_operations"}

\* the body of a handler from its parsed ranges on
RunHandler(handler, st, cell_ranges) ==
  IF handler = "change_font_color"
  THEN process_cell_ranges(st, cell_ranges, "apply_font_color")
  ELSE IF handler = "modify_cell_content_module"
  THEN process_cell_ranges(st, cell_ranges, "set_cell_content_module")
  ELSE IF handler = "modify_cell_content_operations"
  THEN process_cell_ranges(st, cell_ranges, "set_cell_content_operations")
  ELSE LET Then(pre) ==
             IF pre.ok
             THEN process_cell_ranges(pre, cell_ranges, "set_cell_content")
             ELSE pre
       IN Then(WriteAnchorsOfSingles(st, cell_ranges))

\* a range operation called with the string the user typed: every handler
\* parses it inside its try block and then runs over the parsed ranges
RangeOperation ==
  /\ pc = "idle"
  /\ \E handler \in Handlers, range_str \in RangeStrings :
       \E parsed \in {parse_cell_range(range_str)} :
         \E st \in {IF parsed.ok
                    THEN RunHandler(handler, RunState(Sheet), parsed.ranges)
                    ELSE [RunState(Sheet) EXCEPT !.ok = FALSE]} :
           /\ op' = [NoOp EXCEPT !.name = handler]
           /\ files' = [files EXCEPT ![cur] = st.sheet]
           /\ ctx' = [NoCtx EXCEPT !.range_str = range_str,
                                   !.ranges = parsed.ranges,
                                   !.calls = st.calls, !.writes = st.writes,
                                   !.success = st.ok]
  /\ start' = files
  /\ pc' = "done"
  /\ UNCHANGED cur

NextParse ==
  \/ RangeOperation

SpecParse == InitRange /\ [][NextParse]_vars

Malformed(range_str) ==
  \E k \in 1..Len(range_str) :
    \/ Len(range_str[k]) > 2
    \/ \E j \in 1..Len(range_str[k]) : ~ValidRef(range_str[k][j])

\* C11: a range operation whose range string holds a malformed token reports
\* failure, has applied its per-cell function to no cell and has written no
\* cell: the sheet is as it was.
C11_MalformedTokenTouchesNothing ==
  (pc = "done" /\ IsRangeOp /\ Malformed(ctx.range_str)) =>
    /\ ~ctx.success
    /\ ctx.calls = NoCalls
    /\ ctx.writes = NoCalls
    /\ SameValues(files[1], start[1])

\* ================================== sequences of calls on one workbook
MaxCalls == 2

\* the loop "sheet.cell(row, col).value = top_left_value" over the cells of
\* m, which have just been unmerged: only the first cell can still be a
\* MergedCell (of another range), and the assignment to it raises
Broadcast(sheet, m, value) ==
  LET blocked == {q \in RectCells(m) : sheet.cells[q] = MergedCell}
      Before(p, q) == p[1] < q[1] \/ (p[1] = q[1] /\ p[2] < q[2])
      written == {p \in RectCells(m) : \A q \in blocked : Before(p, q)}
  IN [s |-> [sheet EXCEPT !.cells = [p \in Coords |->
                IF p \in written THEN value ELSE @[p]]],
      ok |-> blocked = {}]

\* ExcelProcessor.merge_cells on one sheet: the top-left value is read, every
\* cell of the range is looked at (and so created), the range is merged and
\* the top-left value written back
MergeCellsOnSheet(sheet, m) ==
  LET looked == [sheet EXCEPT !.cells = [p \in Coords |->
                   IF p \in RectCells(m) /\ @[p] = Absent THEN None ELSE @[p]]]
  IN SetValue(merge_cells(looked, m), Anchor(m), CellValue(sheet, Anchor(m)))

\* process_merged_cells, one range of the loop over the ranges to unmerge
SplitOne(sheet, m, action, mode) ==
  LET top_left_value == CellValue(sheet, Anchor(m))
      Then(u) ==
        IF ~u.ok THEN u
        ELSE IF action = "keep_value"
                /\ (mode = "all" \/ top_left_value # None)
        THEN Broadcast(u.s, m, top_left_value)
        ELSE u
  IN Then(unmerge_cells(IF mode = "all" \/ action = "keep_value"
                        THEN Touch(sheet, Anchor(m)) ELSE sheet, m))

RECURSIVE SplitAll(_, _, _, _)
SplitAll(sheet, order, action, mode) ==
  IF order = <<>> THEN [s |-> sheet, ok |-> TRUE]
  ELSE LET Then(r) ==
             IF r.ok THEN SplitAll(r.s, Tail(order), action, mode) ELSE r
       IN Then(SplitOne(sheet, Head(order), action, mode))

\* the ranges process_merged_cells unmerges: all of them, or those that
\* overlap the rectangle given by the two endpoints as written
RangesToSplit(sheet, mode, rng) ==
  IF mode = "all" THEN sheet.merged
  ELSE {m \in sheet.merged :
          ~(MaxRow(m) < rng[1] \/ MinRow(m) > rng[3]
              \/ MaxCol(m) < rng[2] \/ MinCol(m) > rng[4])}

\* the orders in which a loop over a set of ranges can meet them
Orders(S) ==
  {f \in [1..Cardinality(S) -> S] :
     \A i, j \in 1..Cardinality(S) : i # j => f[i] # f[j]}

\* delete_hidden_rows/delete_hidden_columns for the sheet of file cur_file:
\* the hidden units from the highest down, each through DeleteOnFiles
RECURSIVE DeleteHiddenUnits(_, _, _, _, _)
DeleteHiddenUnits(fs, cur_file, todo, axis, merge_mode) ==
  IF todo = {} THEN [files |-> fs, ok |-> TRUE]
  ELSE LET Then(r) ==
             IF r.ok
             THEN DeleteHiddenUnits(r.files, cur_file, todo \ {Max(todo)},
                                    axis, merge_mode)
             ELSE r
       IN Then(DeleteOnFiles([fs EXCEPT ![cur_file] =
                                Unhide(@, axis, Max(todo))],
                             1, axis, Max(todo), 1, merge_mode))

\* the rectangles of more than one cell
ProperRects == {m \in AllRects : Proper(m)}

InitSeq ==
  /\ \E regions \in {S \in SingleRegionSets : \A m \in S : Proper(m)},
        h \in {{}, {1}} :
       files = <<WithHidden(LoadedSheet(regions, "full"), "row", h)>>
  /\ start = files
  /\ op = NoOp
  /\ pc = "idle"
  /\ cur = 1
  /\ ctx = NoCtx

\* the end of a call: the call is appended to the calls made so far
CanCall == pc = "idle" /\ Len(ctx.history) < MaxCalls

Called(name, rng, action, sheet, ok) ==
  /\ files' = [files EXCEPT ![1] = sheet]
  /\ op' = [NoOp EXCEPT !.name = name]
  /\ ctx' = [ctx EXCEPT !.history =
               Append(@, [name |-> name, rng |-> rng, action |-> action,
                          ok |-> ok])]
  /\ UNCHANGED <<start, pc, cur>>

MergeCellsCall ==
  /\ CanCall
  /\ \E m \in ProperRects :
       \E r \in {MergeCellsOnSheet(files[1], m)} :
         Called("merge_cells", m, "merge", r.s, r.ok)

ProcessMergedCellsCall ==
  /\ CanCall
  /\ \E action \in {"unmerge", "keep_value"}, mode \in {"all", "specific"},
     m \in ProperRects :
    /\ mode = "all" => m = <<1, 1, 1, 2>>
    /\ \E order \in Orders(RangesToSplit(files[1], mode, m)) :
         \E r \in {SplitAll(files[1], order, action, mode)} :
           Called("process_merged_cells",
                  IF mode = "all" THEN <<0, 0, 0, 0>> ELSE m, action,
                  r.s, r.ok)

InsertCall ==
  /\ CanCall
  /\ \E name \in {"insert_rows", "insert_columns"}, count \in 1..MaxCount :
    \E position \in 1..AxisLen(Axis(name)) :
      /\ (IF Axis(name) = "row" THEN max_row(files[1])
          ELSE max_column(files[1])) + count <= AxisLen(Axis(name))
      /\ Called(name, <<0, 0, 0, 0>>, "insert",
                IF Axis(name) = "row"
                THEN RawInsertRows(files[1], position, count)
                ELSE RawInsertCols(files[1], position, count), TRUE)

DeleteCall ==
  /\ CanCall
  /\ \E name \in {"delete_rows", "delete_columns"}, count \in 1..MaxCount,
     merge_mode \in MergeModes :
    \E position \in 1..AxisLen(Axis(name)) :
      \E r \in {DeleteOnSheet(files[1], Axis(name), position, count,
                              merge_mode)} :
        Called(name, <<0, 0, 0, 0>>, merge_mode, r.s, r.ok)

DeleteHiddenCall ==
  /\ CanCall
  /\ \E name \in {"delete_hidden_rows", "delete_hidden_columns"},
     merge_mode \in MergeModes :
    \E r \in {DeleteHiddenUnits(files, 1, HiddenOf(files[1], Axis(name)),
                                Axis(name), merge_mode)} :
      Called(name, <<0, 0, 0, 0>>, merge_mode, r.files[1], r.ok)

NextSeq ==
  \/ MergeCellsCall
  \/ ProcessMergedCellsCall
  \/ InsertCall
  \/ DeleteCall
  \/ DeleteHiddenCall

SpecSeq == InitSeq /\ [][NextSeq]_vars

PairwiseDisjoint(S) == \A a, b \in S : a # b => Disjoint(a, b)

\* C12: after any sequence of merge_cells, process_merged_cells, insert,
\* delete and delete-hidden calls on a sheet whose merged ranges were
\* pairwise disjoint, the merged ranges of the sheet are pairwise disjoint.
C12_RegionsStayDisjoint ==
  PairwiseDisjoint(start[1].merged) => PairwiseDisjoint(files[1].merged)

\* the case of C13: merge_cells(R) succeeded and a process_merged_cells call
\* on R itself (or on the whole sheet) succeeded right after it
MergedThenSplit(action) ==
  /\ Len(ctx.history) = 2
  /\ ctx.history[1].name = "merge_cells" /\ ctx.history[1].ok
  /\ ctx.history[2].name = "process_merged_cells" /\ ctx.history[2].ok
  /\ ctx.history[2].action = action
  /\ ctx.history[2].rng \in {ctx.history[1].rng, <<0, 0, 0, 0>>}

\* C13: after merge_cells(R) followed by process_merged_cells on R, R is not
\* merged any more; with keep_value every cell of R holds the value the
\* top-left cell had before the merge; with unmerge the top-left cell holds
\* that value and the other cells of R are empty.
C13_MergeThenSplitRoundTrip ==
  \A action \in {"unmerge", "keep_value"} :
    MergedThenSplit(action) =>
      LET R == ctx.history[1].rng
          v == CellValue(start[1], Anchor(R))
      IN /\ R \notin files[1].merged
         /\ CellValue(files[1], Anchor(R)) = v
         /\ \A p \in RectCells(R) \ {Anchor(R)} :
              CellValue(files[1], p) = IF action = "keep_value" THEN v
                                       ELSE None

\* ============================================ utils.parse_range_string
\* A position string is modelled after the replacement of the full-width
\* separators and the two splits: a sequence of tokens (split at ','), each
\* a sequence of parts (split at ':'), each part a sequence of characters.
MaxWordLen == 2

Digits == {"0", "1", "2", "3"}
Letters == {"a", "B"}

\* the characters position strings are drawn from
Chars == {"0", "1", "a", "B", "-"}

Words == UNION {[1..n -> Chars] : n \in 0..MaxWordLen}

\* str.isdigit and str.isalpha: every character, and at least one
isdigit(w) == w # <<>> /\ \A k \in 1..Len(w) : w[k] \in Digits

isalpha_any(w) == w # <<>>

isalpha(w) == w # <<>> /\ \A k \in 1..Len(w) : w[k] \in Letters

\* the value of a string of digits
RECURSIVE DigitsValue(_)
DigitsValue(w) ==
  IF w = <<>> THEN 0
  ELSE 10 * DigitsValue(SubSeq(w, 1, Len(w) - 1))
       + (CASE w[Len(w)] = "1" -> 1 [] w[Len(w)] = "2" -> 2
            [] w[Len(w)] = "3" -> 3 [] OTHER -> 0)

\* int(str): digits with an optional sign; anything else raises ValueError
IntOk(w) == isdigit(w) \/ (w # <<>> /\ w[1] = "-" /\ isdigit(Tail(w)))

int(w) == IF isdigit(w) THEN DigitsValue(w) ELSE 0 - DigitsValue(Tail(w))

upper(w) == [k \in 1..Len(w) |-> IF w[k] = "a" THEN "A" ELSE w[k]]

\* the order of str on upper-case words: "A" < "B", a prefix comes first
RECURSIVE StrGreater(_, _)
StrGreater(a, b) ==
  IF a = <<>> THEN FALSE
  ELSE IF b = <<>> THEN TRUE
  ELSE IF a[1] # b[1] THEN a[1] = "B"
  ELSE StrGreater(Tail(a), Tail(b))

\* values of the result list: Python int and str are different types
IntVal(n) == [type |-> "int", int |-> n, str |-> <<>>]

StrVal(w) == [type |-> "str", int |-> 0, str |-> w]

\* the tokens: single words, ranges of two words, and a few tokens with two
\* colons; the strings: one token, or two of which at most one is a range
Singles == {<<w>> : w \in Words}

RangeTokens == {<<a, b>> : a \in Words, b \in Words}

PositionStrings ==
  Singles \cup RangeTokens \cup {<<w, w, w>> : w \in Words}

PositionLists ==
  {<<t>> : t \in PositionStrings}
    \cup {<<t, u>> : t \in Singles, u \in Singles \cup RangeTokens}
    \cup {<<t, u>> : t \in RangeTokens, u \in Singles}

\* "".join of the parts of a token: part.replace(':', '')
RECURSIVE Joined(_)
Joined(token) ==
  IF token = <<>> THEN <<>> ELSE Head(token) \o Joined(Tail(token))

\* one part of the loop of parse_range_string; the outcome is the element
\* appended to the result, or an error
ParsePart(part, is_number) ==
  IF Len(part) > 1
  THEN IF Len(part) # 2 THEN [ok |-> FALSE, v |-> <<>>]
       ELSE IF is_number
       THEN IF IntOk(part[1]) /\ IntOk(part[2])
               /\ int(part[1]) > 0 /\ int(part[1]) <= int(part[2])
            THEN [ok |-> TRUE,
                  v |-> <<IntVal(int(part[1])), IntVal(int(part[2]))>>]
            ELSE [ok |-> FALSE, v |-> <<>>]
       ELSE IF isalpha(part[1]) /\ isalpha(part[2])
               /\ ~StrGreater(upper(part[1]), upper(part[2]))
            THEN [ok |-> TRUE,
                  v |-> <<StrVal(upper(part[1])), StrVal(upper(part[2]))>>]
            ELSE [ok |-> FALSE, v |-> <<>>]
  ELSE IF is_number
       THEN IF IntOk(part[1]) /\ int(part[1]) > 0
            THEN [ok |-> TRUE, v |-> StrVal(part[1])]
            ELSE [ok |-> FALSE, v |-> <<>>]
       ELSE IF isalpha(part[1])
            THEN [ok |-> TRUE, v |-> StrVal(upper(part[1]))]
            ELSE [ok |-> FALSE, v |-> <<>>]

RECURSIVE ParseParts(_, _, _)
ParseParts(parts, is_number, result) ==
  IF parts = <<>> THEN [ok |-> TRUE, result |-> result]
  ELSE LET Then(r) ==
             IF r.ok
             THEN ParseParts(Tail(parts), is_number, Append(result, r.v))
             ELSE [ok |-> FALSE, result |-> <<>>]
       IN Then(ParsePart(Head(parts), is_number))

parse_range_string(range_str) ==
  ParseParts(range_str, isdigit(Joined(range_str[1])), <<>>)

InitPositions ==
  /\ files = <<>>
  /\ start = <<>>
  /\ op = NoOp
  /\ pc = "idle"
  /\ cur = 1
  /\ \E range_str \in PositionLists :
       ctx = [NoCtx EXCEPT !.range_str = range_str]

ParsePositions ==
  /\ pc = "idle"
  /\ \E r \in {parse_range_string(ctx.range_str)} :
       ctx' = [ctx EXCEPT !.success = r.ok, !.report = r.result]
  /\ pc' = "done"
  /\ op' = [NoOp EXCEPT !.name = "parse_range_string"]
  /\ UNCHANGED <<files, start, cur>>

NextPositions == ParsePositions

SpecPositions == InitPositions /\ [][NextPositions]_vars

\* every part of every token of a position string
PartsOf(range_str) ==
  UNION {{range_str[k][j] : j \in 1..Len(range_str[k])} :
           k \in 1..Len(range_str)}

\* some part is a number and some part is alphabetic
MixedKinds(range_str) ==
  \E p, q \in PartsOf(range_str) : IntOk(p) /\ isalpha(q)

\* some part is a number smaller than 1
BelowOne(range_str) ==
  \E p \in PartsOf(range_str) : IntOk(p) /\ int(p) < 1

Parsed == pc = "done" /\ op.name = "parse_range_string"

\* C19: parse_range_string rejects, without any result, every position
\* string that mixes numeric and alphabetic tokens (in either order) and
\* every position string with a numeric position smaller than 1.
C19_MixedOrBelowOneRejected ==
  (Parsed /\ (MixedKinds(ctx.range_str) \/ BelowOne(ctx.range_str))) =>
    (~ctx.success /\ ctx.report = <<>>)

\* the string '1,a' has been parsed
C19_Witness ==
  Parsed /\ ctx.range_str = <<(<<(<<"1">>)>>), (<<(<<"a">>)>>)>>
         /\ ~ctx.success

\* the order of columns: a shorter name comes first
ColumnAfter(a, b) ==
  Len(a) > Len(b) \/ (Len(a) = Len(b) /\ StrGreater(a, b))

ValidNumeric(range_str) ==
  \A k \in 1..Len(range_str) :
    /\ Len(range_str[k]) \in {1, 2}
    /\ \A j \in 1..Len(range_str[k]) :
         isdigit(range_str[k][j]) /\ int(range_str[k][j]) >= 1
    /\ Len(range_str[k]) = 2 => int(range_str[k][1]) <= int(range_str[k][2])

ValidAlphabetic(range_str) ==
  \A k \in 1..Len(range_str) :
    /\ Len(range_str[k]) \in {1, 2}
    /\ \A j \in 1..Len(range_str[k]) : isalpha(range_str[k][j])
    /\ Len(range_str[k]) = 2 =>
         ~ColumnAfter(upper(range_str[k][1]), upper(range_str[k][2]))

\* the list the position string stands for
Positions(range_str, Val(_)) ==
  [k \in 1..Len(range_str) |->
     IF Len(range_str[k]) = 1 THEN Val(range_str[k][1])
     ELSE <<Val(range_str[k][1]), Val(range_str[k][2])>>]

IntOf(w) == IntVal(int(w))

UpperOf(w) == StrVal(upper(w))

\* C20: for a valid numeric position string parse_range_string returns, in
\* input order, an integer per single token and a pair of integers per
\* range token; for a valid alphabetic one, an upper-case string per single
\* token and a pair of upper-case strings per range token.
C20_PositionsAsIntegersOrUpperCase ==
  /\ (Parsed /\ ValidNumeric(ctx.range_str)) =>
       (ctx.success /\ ctx.report = Positions(ctx.range_str, IntOf))
  /\ (Parsed /\ ValidAlphabetic(ctx.range_str)) =>
       (ctx.success /\ ctx.report = Positions(ctx.range_str, UpperOf))

\* ================================================ ProcessingThread.run
\* The steps of a run over NumFiles loaded workbooks.  ctx.left is
\* len(self.steps), cur is the loop variable i, ctx.history is
\* self.step_results.  The message of a result is kept as the set of files
\* it names.
MaxSteps == 2
StepRows == 2
StepCols == 2

\* the ranges a step is given
StepRects == {m \in ProperRects : m[3] <= StepRows /\ m[4] <= StepCols}

NoParams == [rng |-> <<0, 0, 0, 0>>, action |-> "none", position |-> 0,
             count |-> 0, merge_mode |-> "ignore"]

InitRun ==
  /\ \E regions \in [1..NumFiles -> {{}} \cup {{m} : m \in StepRects}] :
       files = [f \in 1..NumFiles |-> LoadedSheet(regions[f], "full")]
  /\ start = files
  /\ op = NoOp
  /\ pc = "steps"
  /\ cur = 1
  /\ \E n \in 1..MaxSteps : ctx = [NoCtx EXCEPT !.left = n]

\* ExcelProcessor.merge_cells over file_paths: the first file that raises
\* ends the call
RECURSIVE MergeOnFiles(_, _, _)
MergeOnFiles(fs, i, m) ==
  IF i > Len(fs) THEN [files |-> fs, ok |-> TRUE]
  ELSE LET Then(r) ==
             IF r.ok THEN MergeOnFiles([fs EXCEPT ![i] = r.s], i + 1, m)
             ELSE [files |-> [fs EXCEPT ![i] = r.s], ok |-> FALSE]
       IN Then(MergeCellsOnSheet(fs[i], m))

\* ExcelProcessor.process_merged_cells over file_paths, the ranges of file
\* i being met in the order orders[i]
RECURSIVE SplitOnFiles(_, _, _, _, _)
SplitOnFiles(fs, i, orders, action, mode) ==
  IF i > Len(fs) THEN [files |-> fs, ok |-> TRUE]
  ELSE LET Then(r) ==
             IF r.ok
             THEN SplitOnFiles([fs EXCEPT ![i] = r.s], i + 1, orders, action,
                               mode)
             ELSE [files |-> [fs EXCEPT ![i] = r.s], ok |-> FALSE]
       IN Then(SplitAll(fs[i], orders[i], action, mode))

RECURSIVE SplitOrders(_, _, _, _)
SplitOrders(fs, i, mode, rng) ==
  IF i > Len(fs) THEN {<<>>}
  ELSE {<<o>> \o rest : o \in Orders(RangesToSplit(fs[i], mode, rng)),
                        rest \in SplitOrders(fs, i + 1, mode, rng)}

\* find_intersections(sheet, range_str) is not empty
find_intersections(sheet, rng) == {m \in sheet.merged : ~Disjoint(rng, m)}

\* the first loop of the process_merged_cells_specific branch: the files
\* whose sheet has neither an intersection nor the very range
NotMergedFiles(fs, rng) ==
  {f \in 1..Len(fs) : find_intersections(fs[f], rng) = {}
                        /\ rng \notin fs[f].merged}

\* the second loop: the first file of not_merged_files with a range that
\* overlaps is removed, and the loop ends there
Rechecked(fs, not_merged_files, rng) ==
  LET hit == {f \in not_merged_files : RangesToSplit(fs[f], "specific", rng)
                                         # {}}
  IN IF hit = {} THEN [not_merged |-> not_merged_files, has |-> FALSE]
     ELSE [not_merged |-> not_merged_files \ {Min(hit)}, has |-> TRUE]

\* self.step_results.append({...})
Result(operation, params, success, named) ==
  [step |-> cur, operation |-> operation, params |-> params,
   success |-> success, named |-> named]

\* step_msg = "... 执行成功" after the chain of branches replaces the
\* message a branch has set
MessageAfterChain(step_msg) == {}

\* the failure paths of the process_merged_cells_specific branch: the
\* result is appended there and the loop continues with the next step
AppendAndContinue_twice(results, r) == Append(Append(results, r), r)

AppendAndContinue(results, r) == Append(results, r)

\* the end of one iteration of the loop over the steps
StepDone(fs, results, operation) ==
  /\ files' = fs
  /\ ctx' = [ctx EXCEPT !.history = results]
  /\ cur' = cur + 1
  /\ op' = [NoOp EXCEPT !.name = operation]
  /\ UNCHANGED <<start, pc>>

InLoop == pc = "steps" /\ cur <= ctx.left

MergeCellsStep ==
  /\ InLoop
  /\ \E m \in StepRects :
       \E r \in {MergeOnFiles(files, 1, m)} :
         StepDone(r.files,
                  Append(ctx.history,
                         Result("merge_cells", [NoParams EXCEPT !.rng = m],
                                r.ok, MessageAfterChain({}))),
                  "merge_cells")

ProcessMergedCellsSpecificStep ==
  /\ InLoop
  /\ \E m \in StepRects, action \in {"unmerge", "keep_value"} :
       LET params == [NoParams EXCEPT !.rng = m, !.action = action]
           name == "process_merged_cells_specific"
           checked == Rechecked(files, NotMergedFiles(files, m), m)
       IN IF Cardinality(checked.not_merged) = Len(files) /\ ~checked.has
          THEN StepDone(files,
                        AppendAndContinue(ctx.history,
                                          Result(name, params, FALSE, {})),
                        name)
          ELSE \E orders \in SplitOrders(files, 1, "specific", m) :
                 \E r \in {SplitOnFiles(files, 1, orders, action,
                                        "specific")} :
                   IF ~r.ok
                   THEN StepDone(r.files,
                                 AppendAndContinue(
                                   ctx.history,
                                   Result(name, params, FALSE, {})),
                                 name)
                   ELSE StepDone(r.files,
                                 Append(ctx.history,
                                        Result(name, params, TRUE,
                                               MessageAfterChain(
                                                 checked.not_merged))),
                                 name)

DeleteRowsStep ==
  /\ InLoop
  /\ \E position \in Rows, count \in 1..MaxCount, merge_mode \in MergeModes :
       \E r \in {DeleteOnFiles(files, 1, "row", position, count,
                               merge_mode)} :
         StepDone(r.files,
                  Append(ctx.history,
                         Result("delete_rows",
                                [NoParams EXCEPT !.position = position,
                                                 !.count = count,
                                                 !.merge_mode = merge_mode],
                                r.ok, MessageAfterChain({}))),
                  "delete_rows")

\* an operation name no branch knows: ValueError, caught by the step
UnknownStep ==
  /\ InLoop
  /\ StepDone(files,
              Append(ctx.history, Result("unknown", NoParams, FALSE, {})),
              "unknown")

\* after the loop: processor.save_workbooks()
SaveWorkbooks ==
  /\ pc = "steps" /\ cur > ctx.left
  /\ pc' = "saved"
  /\ op' = [NoOp EXCEPT !.name = "save_workbooks"]
  /\ UNCHANGED <<files, start, cur, ctx>>

NextRun ==
  \/ MergeCellsStep
  \/ ProcessMergedCellsSpecificStep
  \/ DeleteRowsStep
  \/ UnknownStep
  \/ SaveWorkbooks

SpecRun == InitRun /\ [][NextRun]_vars

\* the first step of a run has just been executed
AfterFirstStep == pc = "steps" /\ cur = 2 /\ Len(ctx.history) = 1

\* the outcome of the step's operation on one sheet alone
AloneOnSheet(sheet, r) ==
  IF r.operation = "merge_cells" THEN MergeCellsOnSheet(sheet, r.params.rng)
  ELSE DeleteOnSheet(sheet, "row", r.params.position, r.params.count,
                     r.params.merge_mode)

\* C14: when merge_cells or delete_rows fails on one file of the batch, the
\* operation is still applied to every later file of the batch.
C14_LaterFilesStillProcessed ==
  (AfterFirstStep
     /\ ctx.history[1].operation \in {"merge_cells", "delete_rows"}) =>
    \A f, g \in 1..NumFiles :
      (f < g /\ ~AloneOnSheet(start[f], ctx.history[1]).ok
             /\ AloneOnSheet(start[g], ctx.history[1]).ok) =>
        files[g] = AloneOnSheet(start[g], ctx.history[1]).s

\* C15: step_results holds exactly one result for every step executed so
\* far, numbered 1, 2, ... in order, whether the steps succeeded or failed,
\* and when the loop is left every step of the run has its result.
C15_OneResultPerStepInOrder ==
  (pc \in {"steps", "saved"}) =>
    /\ Len(ctx.history) = cur - 1
    /\ \A k \in 1..Len(ctx.history) : ctx.history[k].step = k
    /\ pc = "saved" => Len(ctx.history) = ctx.left

\* a run of two steps was saved after its first step failed and its second
\* step succeeded
C15_Witness ==
  /\ pc = "saved" /\ Len(ctx.history) = 2
  /\ ~ctx.history[1].success /\ ctx.history[2].success
  /\ ctx.history[1].operation = "process_merged_cells_specific"

\* the files in which the range of the step overlaps a merged range
MergedIn(fs, rng) ==
  {f \in 1..Len(fs) : RangesToSplit(fs[f], "specific", rng) # {}}

\* C16: when the range of a specific-range unmerge step overlaps a merged
\* range in some files and in none of the sheets of the others, the result
\* of the step names the files in which it was not merged, and the ranges
\* are unmerged in the files in which it was.
C16_NotMergedFilesNamed ==
  (AfterFirstStep
     /\ ctx.history[1].operation = "process_merged_cells_specific"
     /\ MergedIn(start, ctx.history[1].params.rng) # {}
     /\ MergedIn(start, ctx.history[1].params.rng) # 1..NumFiles) =>
    /\ ctx.history[1].named
         = (1..NumFiles) \ MergedIn(start, ctx.history[1].params.rng)
    /\ MergedIn(files, ctx.history[1].params.rng) = {}

\* ===================================== cancellation of a running thread
\* The worker thread (ProcessingThread.run) and the GUI thread
\* (ExecutionMixin.update_progress, the Cancel button of the progress
\* dialog).  A workbook is kept as the number of steps applied to it; the
\* progress signals the worker has emitted wait in ctx.queue until the GUI
\* thread runs the slot.
\*   pc = "load"   before load_workbooks
\*        "loop"   at the head of the loop over the steps
\*        "step"   inside a step, ctx.within files already changed by it
\*        "save"   inside save_workbooks
\*        "closed" after close_workbooks, before emit(100)
\*        "done"   run has returned;  "terminated"  the thread was killed
InitCancel ==
  /\ files = [f \in 1..NumFiles |-> [applied |-> 0]]
  /\ start = files
  /\ op = NoOp
  /\ pc = "load"
  /\ cur = 1
  /\ \E n \in 1..MaxSteps :
       ctx = [steps |-> n, queue |-> <<>>, canceled |-> FALSE, within |-> 0,
              saved |-> {}]

\* self.progress_updated.emit(value): a queued call of the slot
Emit(c, value) == [c EXCEPT !.queue = Append(@, value)]

LoadWorkbooks ==
  /\ pc = "load"
  /\ pc' = "loop"
  /\ ctx' = Emit(ctx, 20)
  /\ op' = [NoOp EXCEPT !.name = "load_workbooks"]
  /\ UNCHANGED <<files, start, cur>>

\* the head of an iteration: the progress of step i is emitted and the step
\* begins
BeginStep ==
  /\ pc = "loop" /\ cur <= ctx.steps
  /\ pc' = "step"
  /\ ctx' = [Emit(ctx, 20 + (cur * 60) \div ctx.steps) EXCEPT !.within = 0]
  /\ op' = [NoOp EXCEPT !.name = "step"]
  /\ UNCHANGED <<files, start, cur>>

\* the operation of the step changes the workbook of the next file
StepOnFile ==
  /\ pc = "step"
  /\ files' = [files EXCEPT ![ctx.within + 1].applied = @ + 1]
  /\ ctx' = [ctx EXCEPT !.within = @ + 1]
  /\ IF ctx.within + 1 = NumFiles
     THEN pc' = "loop" /\ cur' = cur + 1
     ELSE UNCHANGED <<pc, cur>>
  /\ UNCHANGED <<start, op>>

\* after the loop: save_workbooks writes the workbooks one after the other
BeginSave ==
  /\ pc = "loop" /\ cur > ctx.steps
  /\ pc' = "save"
  /\ ctx' = [ctx EXCEPT !.within = 0]
  /\ op' = [NoOp EXCEPT !.name = "save_workbooks"]
  /\ UNCHANGED <<files, start, cur>>

SaveFile ==
  /\ pc = "save"
  /\ IF ctx.within + 1 = NumFiles
     THEN /\ pc' = "closed"
          /\ ctx' = Emit([ctx EXCEPT !.within = @ + 1,
                                     !.saved = @ \cup {ctx.within + 1}], 90)
     ELSE /\ pc' = pc
          /\ ctx' = [ctx EXCEPT !.within = @ + 1,
                                !.saved = @ \cup {ctx.within + 1}]
  /\ UNCHANGED <<files, start, cur, op>>

FinishRun ==
  /\ pc = "closed"
  /\ pc' = "done"
  /\ ctx' = Emit(ctx, 100)
  /\ op' = [NoOp EXCEPT !.name = "operation_complete"]
  /\ UNCHANGED <<files, start, cur>>

\* the user presses Cancel in the progress dialog
PressCancel ==
  /\ ~ctx.canceled
  /\ ctx' = [ctx EXCEPT !.canceled = TRUE]
  /\ UNCHANGED <<files, start, cur, op, pc>>

\* the GUI thread runs update_progress for the oldest waiting signal:
\* after a cancel the worker is terminated wherever it is
UpdateProgress ==
  /\ ctx.queue # <<>>
  /\ ctx' = [ctx EXCEPT !.queue = Tail(@)]
  /\ pc' = IF ctx.canceled /\ pc # "done" THEN "terminated" ELSE pc
  /\ UNCHANGED <<files, start, cur, op>>

Running == pc \notin {"done", "terminated"}

NextCancel ==
  \/ LoadWorkbooks
  \/ BeginStep
  \/ StepOnFile
  \/ BeginSave
  \/ SaveFile
  \/ FinishRun
  \/ (Running /\ PressCancel)
  \/ UpdateProgress

SpecCancel == InitCancel /\ [][NextCancel]_vars

\* C17: when the worker has been stopped by a cancellation, every step is
\* applied to all the workbooks or to none, and no workbook has been saved
\* to the output directory.
C17_CancelOnlyAtStepBoundary ==
  (pc = "terminated") =>
    /\ \A f, g \in 1..NumFiles : files[f].applied = files[g].applied
    /\ ctx.saved = {}

\* ============================================== the files a run touches
\* A path is <<directory, file name>>.  ctx.written and ctx.deleted collect
\* the paths the run has written to (shutil.copy2 destination, wb.save) and
\* unlinked.
Dirs == {"d1", "d2"}
InputNames == {"a.xlsx", "temp_a.xlsx"}

\* f"temp_{Path(file_path).name}"
TempName(name) ==
  IF name = "a.xlsx" THEN "temp_a.xlsx" ELSE "temp_temp_a.xlsx"

\* Path(file_path).parent / f"temp_{Path(file_path).name}"
TempPath(file_path) == <<file_path[1], TempName(file_path[2])>>

\* Path(self.output_dir) / Path(file_path).name
OutputPath(output_dir, file_path) == <<output_dir, file_path[2]>>

InputPaths == Dirs \X InputNames

\* the lists of one to NumFiles different input files
FileLists ==
  {fp \in UNION {[1..n -> InputPaths] : n \in 1..NumFiles} :
     \A i, j \in 1..Len(fp) : i # j => fp[i] # fp[j]}

InitPaths ==
  /\ files = <<>>
  /\ start = <<>>
  /\ op = NoOp
  /\ pc = "load"
  /\ cur = 1
  /\ \E fp \in FileLists, output_dir \in Dirs :
       ctx = [file_paths |-> fp, output_dir |-> output_dir,
              temp_files |-> {}, written |-> {}, deleted |-> {}]

\* load_workbooks, one file: the file is copied to its temp path
LoadWorkbook ==
  /\ pc = "load"
  /\ ctx' = [ctx EXCEPT !.written = @ \cup {TempPath(ctx.file_paths[cur])},
                        !.temp_files = @ \cup {cur}]
  /\ IF cur = Len(ctx.file_paths)
     THEN pc' = "steps" /\ cur' = 1
     ELSE pc' = pc /\ cur' = cur + 1
  /\ op' = [NoOp EXCEPT !.name = "load_workbooks"]
  /\ UNCHANGED <<files, start>>

\* a step that ends with wb.save(temp_path) for every file
StepSavesTemp ==
  /\ pc = "steps" /\ cur <= MaxSteps
  /\ ctx' = [ctx EXCEPT !.written =
               @ \cup {TempPath(ctx.file_paths[f]) :
                         f \in 1..Len(ctx.file_paths)}]
  /\ cur' = cur + 1
  /\ op' = [NoOp EXCEPT !.name = "merge_cells"]
  /\ UNCHANGED <<files, start, pc>>

BeginSaveWorkbooks ==
  /\ pc = "steps"
  /\ pc' = "save"
  /\ cur' = 1
  /\ op' = [NoOp EXCEPT !.name = "save_workbooks"]
  /\ UNCHANGED <<files, start, ctx>>

\* save_workbooks, one file: wb.save(output_path), then the temp file of
\* the file is unlinked
SaveWorkbook ==
  /\ pc = "save"
  /\ ctx' = [ctx EXCEPT
               !.written = @ \cup {OutputPath(ctx.output_dir,
                                              ctx.file_paths[cur])},
               !.deleted = @ \cup (IF cur \in ctx.temp_files
                                   THEN {TempPath(ctx.file_paths[cur])}
                                   ELSE {}),
               !.temp_files = @ \ {cur}]
  /\ IF cur = Len(ctx.file_paths)
     THEN pc' = "done" /\ cur' = cur
     ELSE pc' = pc /\ cur' = cur + 1
  /\ UNCHANGED <<files, start, op>>

\* the run ends early: an exception, or the thread is terminated
StopRun ==
  /\ pc \in {"load", "steps", "save"}
  /\ pc' = "stopped"
  /\ UNCHANGED <<files, start, cur, op, ctx>>

NextPaths ==
  \/ LoadWorkbook
  \/ StepSavesTemp
  \/ BeginSaveWorkbooks
  \/ SaveWorkbook
  \/ StopRun

SpecPaths == InitPaths /\ [][NextPaths]_vars

TheInputs == {ctx.file_paths[f] : f \in 1..Len(ctx.file_paths)}

\* C18: no run, however it ends and whatever the output directory, writes
\* to or deletes the file at one of the input paths.
C18_InputFilesNeverTouched ==
  /\ ctx.written \cap TheInputs = {}
  /\ ctx.deleted \cap TheInputs = {}

\* ============================ row and column steps with a position list
\* The branches of ProcessingThread.run for delete_rows and delete_columns:
\* the position string is parsed and every token becomes one call of the
\* processor, in the order of the list.  ctx.report collects the calls.
RowWords == {<<"1">>, <<"2">>, <<"3">>}

ColumnWords == UNION {[1..n -> Letters] : n \in 1..MaxWordLen}

\* lists of one or two tokens over the given words
TokenLists(W) ==
  LET tokens == {<<w>> : w \in W} \cup {<<a, b>> : a \in W, b \in W}
  IN {<<t>> : t \in tokens} \cup {<<t, u>> : t \in tokens, u \in tokens}

\* ord(c) - ord('A') + 1 for an upper-case word: ord of a string of more
\* than one character raises TypeError
OrdOk(w) == Len(w) = 1

col_idx(w) == IF w[1] = "A" THEN 1 ELSE 2

\* isinstance(pos, tuple) for every element of positions: the elements
\* that come from a token with a colon
Tuples(range_str) == [k \in 1..Len(range_str) |-> Len(range_str[k]) > 1]

\* the call one element of positions leads to, or an error
CallOf(pos, is_tuple, axis) ==
  IF axis = "row"
  THEN IF is_tuple
       THEN [ok |-> TRUE, position |-> pos[1].int,
             count |-> pos[2].int - pos[1].int + 1]
       ELSE [ok |-> IntOk(pos.str), position |-> int(pos.str), count |-> 1]
  ELSE IF is_tuple
       THEN [ok |-> OrdOk(pos[1].str) /\ OrdOk(pos[2].str),
             position |-> col_idx(pos[1].str),
             count |-> col_idx(pos[2].str) - col_idx(pos[1].str) + 1]
       ELSE [ok |-> OrdOk(pos.str), position |-> col_idx(pos.str),
             count |-> 1]

\* "for pos in positions": the calls are made one after the other on the
\* sheet as the call before has left it; the first error ends the step
RECURSIVE DeleteByPositions(_, _, _, _, _)
DeleteByPositions(st, positions, tuples, axis, merge_mode) ==
  IF positions = <<>> \/ ~st.ok THEN st
  ELSE LET Do(c) ==
             IF ~c.ok THEN [st EXCEPT !.ok = FALSE]
             ELSE LET Then(r) ==
                        [files |-> r.files, ok |-> r.ok,
                         calls |-> Append(st.calls,
                                          [position |-> c.position,
                                           count |-> c.count])]
                  IN Then(DeleteOnFiles(st.files, 1, axis, c.position,
                                        c.count, merge_mode))
       IN DeleteByPositions(Do(CallOf(Head(positions), Head(tuples), axis)),
                            Tail(positions), Tail(tuples), axis, merge_mode)

InitStep ==
  /\ files = <<LoadedSheet({}, "full")>>
  /\ start = files
  /\ pc = "idle"
  /\ cur = 1
  /\ \E name \in {"delete_rows", "delete_columns"} :
       /\ op = [NoOp EXCEPT !.name = name]
       /\ \E range_str \in TokenLists(IF name = "delete_rows" THEN RowWords
                                      ELSE ColumnWords) :
            ctx = [NoCtx EXCEPT !.range_str = range_str]

\* one delete_rows or delete_columns step
PositionStep ==
  /\ pc = "idle"
  /\ \E parsed \in {parse_range_string(ctx.range_str)} :
       IF ~parsed.ok
       THEN /\ ctx' = [ctx EXCEPT !.success = FALSE]
            /\ files' = files
       ELSE \E r \in {DeleteByPositions(
                        [files |-> files, ok |-> TRUE, calls |-> <<>>],
                        parsed.result, Tuples(ctx.range_str),
                        Axis(op.name), "ignore")} :
              /\ ctx' = [ctx EXCEPT !.success = r.ok, !.report = r.calls]
              /\ files' = r.files
  /\ pc' = "done"
  /\ UNCHANGED <<start, op, cur>>

NextStep == PositionStep

SpecStep == InitStep /\ [][NextStep]_vars

\* the index of a column name in base 26
RECURSIVE ColumnIndex(_)
ColumnIndex(w) ==
  IF w = <<>> THEN 0
  ELSE 26 * ColumnIndex(SubSeq(w, 1, Len(w) - 1))
       + (IF w[Len(w)] = "A" THEN 1 ELSE 2)

StepOver == pc = "done" /\ op.name \in {"delete_rows", "delete_columns"}

\* C21: in a column step a column token X stands for its index in base 26
\* (A = 1, ..., Z = 26, AA = 27, ...), and a range X:Y is accepted exactly
\* when index(X) <= index(Y) and then covers index(Y) - index(X) + 1 columns
\* from index(X).
C21_ColumnTokensInBase26 ==
  (StepOver /\ op.name = "delete_columns" /\ Len(ctx.range_str) = 1) =>
    LET token == ctx.range_str[1]
        X == ColumnIndex(upper(token[1]))
        Y == ColumnIndex(upper(token[Len(token)]))
    IN IF X <= Y
       THEN ctx.report = <<[position |-> X, count |-> Y - X + 1]>>
       ELSE ~ctx.success /\ ctx.report = <<>>

\* the units the tokens of a position string name
NamedUnits(range_str, Index(_)) ==
  UNION {Index(range_str[k][1])..Index(range_str[k][Len(range_str[k])]) :
           k \in 1..Len(range_str)}

IndexOfColumn(w) == ColumnIndex(upper(w))

\* the k-th smallest element of a set of numbers
Kth(S, k) == CHOOSE x \in S : Cardinality({y \in S : y < x}) = k - 1

\* the sheet holds the rows of the sheet it started from, without the rows
\* named, closed up in their order
RowsRemoved(sheet, before, named) ==
  \A p \in Coords :
    CellValue(sheet, p) =
      IF p[1] <= Cardinality(Rows \ named)
      THEN CellValue(before, <<Kth(Rows \ named, p[1]), p[2]>>)
      ELSE None

ColumnsRemoved(sheet, before, named) ==
  \A p \in Coords :
    CellValue(sheet, p) =
      IF p[2] <= Cardinality(Cols \ named)
      THEN CellValue(before, <<p[1], Kth(Cols \ named, p[2])>>)
      ELSE None

\* C28: a delete_rows/delete_columns step with a list of several tokens
\* removes exactly the units the tokens name in the numbering of the sheet
\* at the start of the step, whatever the order of the tokens.
C28_ListedUnitsRemoved ==
  /\ (StepOver /\ op.name = "delete_rows" /\ ValidNumeric(ctx.range_str)) =>
       RowsRemoved(files[1], start[1], NamedUnits(ctx.range_str, int))
  /\ (StepOver /\ op.name = "delete_columns"
        /\ ValidAlphabetic(ctx.range_str)
        /\ NamedUnits(ctx.range_str, IndexOfColumn) \subseteq Cols) =>
       ColumnsRemoved(files[1], start[1],
                      NamedUnits(ctx.range_str, IndexOfColumn))

\* ================================= parse_cell_range on the written text
\* Here a range string is the sequence of its characters, a cell reference
\* counting as one character; "," and ":" are the ASCII separators, WideComma
\* and WideColon the full-width ones.
MaxTextLen == 5

\* the characters U+FF0C and U+FF1A
WideComma == "full-width comma"
WideColon == "full-width colon"

TextChars == {"A1", "B2", ",", ":"}

Texts == UNION {[1..n -> TextChars] : n \in 1..MaxTextLen}

\* str.replace(old, new) for single characters
replace_comma_only(text, old, new) ==
  [k \in 1..Len(text) |-> IF text[k] = old /\ old = WideComma THEN new
                          ELSE text[k]]

replace(text, old, new) ==
  [k \in 1..Len(text) |-> IF text[k] = old THEN new ELSE text[k]]

\* str.split(sep): the pieces between the separators, empty ones included
RECURSIVE split(_, _)
split(text, sep) ==
  IF \A k \in 1..Len(text) : text[k] # sep THEN <<text>>
  ELSE LET k == Min({j \in 1..Len(text) : text[j] = sep})
       IN <<SubSeq(text, 1, k - 1)>>
            \o split(SubSeq(text, k + 1, Len(text)), sep)

\* parse_cell_range from the text: "start, end = r.split(':')" raises on a
\* piece with more than one colon
ParseCellRangeText(text) ==
  LET ranges == split(replace(replace(text, WideComma, ","), WideColon, ":"), ",")
      Pair(r) == IF Len(split(r, ":")) = 1 THEN <<r, r>> ELSE split(r, ":")
  IN IF \E k \in 1..Len(ranges) : Len(split(ranges[k], ":")) > 2
     THEN [ok |-> FALSE, ranges |-> <<>>]
     ELSE [ok |-> TRUE, ranges |-> [k \in 1..Len(ranges) |-> Pair(ranges[k])]]

\* the text with the separators at the positions wide written full-width
Widened(text, wide) ==
  [k \in 1..Len(text) |->
     IF k \in wide /\ text[k] = "," THEN WideComma
     ELSE IF k \in wide /\ text[k] = ":" THEN WideColon
     ELSE text[k]]

InitText ==
  /\ files = <<>>
  /\ start = <<>>
  /\ op = NoOp
  /\ pc = "idle"
  /\ cur = 1
  /\ \E text \in Texts :
       \E wide \in SUBSET {k \in 1..Len(text) : text[k] \in {",", ":"}} :
         ctx = [ascii |-> text, range_str |-> Widened(text, wide),
                of_ascii |-> <<>>, of_range_str |-> <<>>]

\* parse_cell_range is called on the text and on its ASCII form
ParseBoth ==
  /\ pc = "idle"
  /\ ctx' = [ctx EXCEPT !.of_ascii = ParseCellRangeText(ctx.ascii),
                        !.of_range_str = ParseCellRangeText(ctx.range_str)]
  /\ pc' = "done"
  /\ op' = [NoOp EXCEPT !.name = "parse_cell_range"]
  /\ UNCHANGED <<files, start, cur>>

NextText == ParseBoth

SpecText == InitText /\ [][NextText]_vars

\* C22: parse_cell_range returns the same list of (start, end) pairs for a
\* range string and for every string that differs from it only in having
\* some commas and colons written full-width.
C22_FullWidthSeparatorsSameResult ==
  (pc = "done" /\ op.name = "parse_cell_range") =>
    ctx.of_range_str = ctx.of_ascii

\* A1, B2:A1 written with full-width separators has been parsed into two ranges
C22_Witness ==
  /\ pc = "done" /\ op.name = "parse_cell_range"
  /\ ctx.range_str = <<"A1", WideComma, "B2", WideColon, "A1">>
  /\ ctx.of_range_str.ok
  /\ ctx.of_range_str.ranges = <<(<<(<<"A1">>), (<<"A1">>)>>),
                                 (<<(<<"B2">>), (<<"A1">>)>>)>>

\* ====================================================== hide and unhide
\* sheet.row_dimensions has one entry per row.  sheet.column_dimensions is
\* keyed by the letter of the first column of a <col min max> element of
\* the file: an entry stands for the columns min..max, and its hidden flag
\* is written back for all of them.  ctx.column_dimensions is the set of
\* the entries, ctx.before the entries when the call began.
\* the column_dimensions a loaded file can have: entries that do not overlap
ColumnDimensions ==
  {D \in SUBSET [min : Cols, max : Cols, hidden : BOOLEAN] :
     /\ \A d \in D : d.min <= d.max
     /\ \A d, e \in D : d # e => (d.max < e.min \/ e.max < d.min)}

\* the flag a column has in the workbook as it is saved
ColumnHidden(D, c) == \E d \in D : d.min <= c /\ c <= d.max /\ d.hidden

\* sheet.column_dimensions[col_letter].hidden = flag: the entry with that
\* key, made on demand for the single column when there is none
SetColumnHidden(D, c, flag) ==
  IF \E d \in D : d.min = c
  THEN {IF d.min = c THEN [d EXCEPT !.hidden = flag] ELSE d : d \in D}
  ELSE D \cup {[min |-> c, max |-> c, hidden |-> flag]}

RECURSIVE SetColumnsHidden(_, _, _, _)
SetColumnsHidden(D, col, left, flag) ==
  IF left = 0 THEN D
  ELSE SetColumnsHidden(SetColumnHidden(D, col, flag), col + 1, left - 1,
                        flag)

HideNames == {"hide_rows", "unhide_rows", "hide_columns", "unhide_columns"}

HideAxis(name) ==
  IF name \in {"hide_rows", "unhide_rows"} THEN "row" ELSE "col"

HideFlag(name) == name \in {"hide_rows", "hide_columns"}

InitHide ==
  /\ \E regions \in {{}, {<<1, 1, 2, 2>>}}, hiddenR \in SUBSET Rows :
       files = <<WithHidden(LoadedSheet(regions, "full"), "row", hiddenR)>>
  /\ start = files
  /\ op = NoOp
  /\ pc = "idle"
  /\ cur = 1
  /\ \E D \in ColumnDimensions :
       ctx = [column_dimensions |-> D, before |-> D]

\* hide_rows, unhide_rows, hide_columns, unhide_columns on the sheet
HideCall ==
  /\ pc = "idle"
  /\ \E name \in HideNames, count \in 1..MaxCount :
       \E position \in 1..(AxisLen(HideAxis(name)) - count + 1) :
         /\ op' = [NoOp EXCEPT !.name = name, !.position = position,
                               !.count = count]
         /\ IF HideAxis(name) = "row"
            THEN /\ files' = [files EXCEPT ![1].hiddenR =
                                IF HideFlag(name)
                                THEN @ \cup (position..(position + count - 1))
                                ELSE @ \ (position..(position + count - 1))]
                 /\ ctx' = ctx
            ELSE /\ files' = files
                 /\ ctx' = [ctx EXCEPT !.column_dimensions =
                              SetColumnsHidden(@, position, count,
                                               HideFlag(name))]
  /\ pc' = "done"
  /\ UNCHANGED <<start, cur>>

NextHide == HideCall

SpecHide == InitHide /\ [][NextHide]_vars

\* C23: hide_rows/unhide_rows/hide_columns/unhide_columns with position P
\* and count N change the hidden flag of the units P..P+N-1 only: the
\* merged ranges, every cell value and the hidden flag of every other row
\* and column are as before.
C23_OnlyTheBandChangesVisibility ==
  (pc = "done" /\ op.name \in HideNames) =>
    /\ files[1].merged = start[1].merged
    /\ files[1].cells = start[1].cells
    /\ \A r \in Rows :
         (HideAxis(op.name) = "col" \/ r < op.position
            \/ r >= op.position + op.count) =>
           (r \in files[1].hiddenR <=> r \in start[1].hiddenR)
    /\ \A c \in Cols :
         (HideAxis(op.name) = "row" \/ c < op.position
            \/ c >= op.position + op.count) =>
           (ColumnHidden(ctx.column_dimensions, c)
              <=> ColumnHidden(ctx.before, c))

\* ============================================ the dispatch of one step
\* the keys of StepItem.operation_desc
operation_desc ==
  {"convert_formulas_to_values", "process_merged_cells_all",
   "process_merged_cells_specific", "merge_cells", "create_worksheet",
   "delete_worksheet", "insert_rows", "delete_rows", "hide_rows",
   "unhide_rows", "delete_hidden_rows", "insert_columns", "delete_columns",
   "hide_columns", "unhide_columns", "delete_hidden_columns",
   "change_font_color", "change_fill_color", "add_border", "remove_border",
   "modify_cell_content"}

\* the name the chain of branches looks at: params['operation'] when the
\* params carry one, step.operation otherwise
OperationName(step) ==
  IF step.params_operation # "none" THEN step.params_operation
  ELSE step.operation

\* the if/elif chain of ProcessingThread.run: the branch an operation name
\* is handled by
Branch(operation_name) ==
  IF operation_name = "convert_formulas_to_values"
    THEN "convert_formulas_to_values"
  ELSE IF operation_name = "merge_cells" THEN "merge_cells"
  ELSE IF operation_name = "process_merged_cells_all"
    THEN "process_merged_cells"
  ELSE IF operation_name = "process_merged_cells_specific"
    THEN "process_merged_cells"
  ELSE IF operation_name = "create_worksheet" THEN "create_worksheet"
  ELSE IF operation_name = "delete_worksheet" THEN "delete_worksheet"
  ELSE IF operation_name \in {"insert_rows", "delete_rows", "hide_rows",
                              "unhide_rows"}
    THEN operation_name
  ELSE IF operation_name \in {"insert_columns", "delete_columns",
                              "hide_columns", "unhide_columns"}
    THEN operation_name
  ELSE "unknown"

InitDispatch ==
  /\ files = <<>>
  /\ start = <<>>
  /\ op = NoOp
  /\ pc = "idle"
  /\ cur = 1
  /\ \E operation \in operation_desc,
        params_operation \in operation_desc \cup {"none"} :
       ctx = [step |-> [operation |-> operation,
                        params_operation |-> params_operation],
              branch |-> "none", history |-> <<>>]

\* one step of the loop: the handler of the branch is called and taken to
\* succeed; the unknown-operation branch raises ValueError
DispatchStep ==
  /\ pc = "idle"
  /\ ctx' = [ctx EXCEPT
               !.branch = Branch(OperationName(ctx.step)),
               !.history =
                 <<[step |-> cur, operation |-> ctx.step.operation,
                    success |-> Branch(OperationName(ctx.step)) # "unknown"]>>]
  /\ pc' = "done"
  /\ op' = [NoOp EXCEPT !.name = OperationName(ctx.step)]
  /\ UNCHANGED <<files, start, cur>>

NextDispatch == DispatchStep

SpecDispatch == InitDispatch /\ [][NextDispatch]_vars

\* C24: every operation name a step can carry is dispatched to a handler of
\* the processor; none ends in the unknown-operation failure.
C24_EveryOperationDispatched ==
  (pc = "done" /\ ctx.branch # "none") => ctx.branch # "unknown"

\* C25: in delete_rows/delete_columns every merged range (of more than one
\* cell) whose span along the axis meets the band is in the intersecting
\* set, whatever it occupies across the axis and whatever cells hold
\* values; hence every merged range is entirely before the band or in the
\* reconciliation set.
C25_RangesMeetingBandCollected ==
  (IsDelete /\ pc = "process") =>
    \A m \in start[cur].merged :
      Proper(m) =>
        /\ MeetsBand(m) => m \in ctx.intersect
        /\ Hi(m, OpAxis) < op.position \/ m \in ctx.recon

\* the rectangle step 3 computes for a recorded range: min less the deleted
\* units strictly before it, max less the deleted units at or before it
Recomputed(m) ==
  Moved(m, OpAxis,
        Lo(m, OpAxis) - Cardinality({r \in Band : r < Lo(m, OpAxis)}),
        Hi(m, OpAxis) - Cardinality({r \in Band : r <= Hi(m, OpAxis)}))

\* C26: under unmerge_only and unmerge_keep_value, a merged range that meets
\* the band, whose min row (column) is not a deleted unit and whose
\* recomputed rectangle covers more than one cell, is merged at the
\* recomputed rectangle when the call is done, with the anchor value it had
\* at the start in its top-left cell.
C26_IntersectingRegionRecreated ==
  (IsDelete /\ op.merge_mode \in {"unmerge_only", "unmerge_keep_value"}
     /\ pc = "done") =>
    \A i \in Files : \A m \in start[i].merged :
      (MeetsBand(m) /\ Lo(m, OpAxis) \notin Band /\ Proper(Recomputed(m))) =>
        /\ Recomputed(m) \in files[i].merged
        /\ CellValue(files[i], Anchor(Recomputed(m)))
             = CellValue(start[i], Anchor(m))

\* merge_info_list holds the rectangle of m and the anchor value it had when
\* the call began
Snapshotted(info, m) ==
  \E k \in DOMAIN info :
    info[k] = [rng |-> m, value |-> CellValue(start[cur], Anchor(m))]

\* C27: in a delete_rows/delete_columns call every range of the
\* reconciliation set that is unmerged is unmerged before the first raw unit
\* deletion and has its rectangle and anchor value recorded no later than
\* the step that unmerges it; the raw deletions go from the highest unit of
\* the band to the lowest; a range is merged only after the last raw
\* deletion; with an empty reconciliation set the only changes to the sheet
\* are the raw deletions.
C27_SnapshotUnmergeDeleteRecreate ==
  [][(IsDelete /\ pc \in {"process", "unmerge", "raw"}) =>
       /\ \A m \in ctx.recon :
            (m \in files[cur].merged /\ m \notin files'[cur].merged) =>
              /\ pc \in {"process", "unmerge"}
              /\ Snapshotted(ctx'.info, m)
       /\ (pc = "raw" /\ ctx.left > 0) =>
            /\ files'[cur] = RawDeleteUnit(files[cur], OpAxis,
                                           op.position + ctx.left - 1)
            /\ ctx'.left = ctx.left - 1
       /\ (files'[cur].merged \ files[cur].merged # {}) =>
            (pc = "raw" /\ ctx.left = 0)
       /\ (ctx.recon = {} /\ files'[cur] # files[cur]) =>
            (pc = "raw" /\ ctx.left > 0)]_vars

\* ============================================================ SpecSheets
\* ProcessingThread.run over create_worksheet and delete_worksheet steps:
\* the success flag and the message of every recorded step result.  A
\* workbook is the set of its sheet names; a message is the sequence of its
\* parts.
SheetTitles == {"S1", "S2"}

\* params.get('sheet_name', '')
SheetNameInputs == {""} \cup SheetTitles

\* the texts ' 执行成功' and ' 执行失败' of a step message
ExecSucceeded == "execution succeeded"
ExecFailed == "execution failed"

Contains(message, part) == \E k \in DOMAIN message : message[k] = part

CountText(k) == CASE k = 1 -> "1" [] k = 2 -> "2" [] OTHER -> "3"

\* openpyxl: a title in use gets the highest count in use plus one appended
avoid_duplicate_name(names, value) ==
  IF value \notin names THEN value
  ELSE value \o CountText(1 + Max({0} \cup {k \in 1..MaxSteps :
                                             value \o CountText(k) \in names}))

\* ExcelProcessor.create_worksheet: wb.create_sheet(title=sheet_name) in
\* every file
create_worksheet(fs, sheet_name) ==
  [f \in DOMAIN fs |->
     [fs[f] EXCEPT !.sheetnames =
        @ \cup {avoid_duplicate_name(@, sheet_name)}]]

\* ExcelProcessor.delete_worksheet from file i on: del wb[sheet_name] where
\* the sheet exists, then wb.save(temp_path), which raises for a workbook
\* left without a sheet; the exception is raised again
RECURSIVE delete_worksheet(_, _, _)
delete_worksheet(fs, i, sheet_name) ==
  IF i > Len(fs) THEN [files |-> fs, ok |-> TRUE]
  ELSE IF sheet_name \notin fs[i].sheetnames
  THEN delete_worksheet(fs, i + 1, sheet_name)
  ELSE LET Deleted(gs) ==
             IF gs[i].sheetnames = {} THEN [files |-> gs, ok |-> FALSE]
             ELSE delete_worksheet(gs, i + 1, sheet_name)
       IN Deleted([fs EXCEPT ![i].sheetnames = @ \ {sheet_name}])

\* what a branch of the chain leaves: the workbooks, whether it raised (and
\* the text of the exception), step_success and step_msg
Left(fs, raised, error_msg, step_success, step_msg) ==
  [files |-> fs, raised |-> raised, error_msg |-> error_msg,
   step_success |-> step_success, step_msg |-> step_msg]

\* the inner "except Exception as e" of the two branches:
\* raise ValueError(step_msg)
RaiseStepMsg(fs, text, reason) ==
  Left(fs, TRUE, <<"step", text, ExecFailed, reason>>, FALSE,
       <<"step", text, ExecFailed, reason>>)

\* the branch of create_worksheet
CreateWorksheetBranch(fs, sheet_name) ==
  IF sheet_name = "" THEN RaiseStepMsg(fs, "create worksheet", "empty name")
  ELSE Left(create_worksheet(fs, sheet_name), FALSE, <<>>, TRUE,
            <<"step", "create worksheet", ExecSucceeded>>)

\* the branch of delete_worksheet
DeleteWorksheetBranch(fs, sheet_name) ==
  LET sheet_not_exist_files ==
        {f \in DOMAIN fs : sheet_name \notin fs[f].sheetnames}
      After(d) ==
        IF ~d.ok
        THEN RaiseStepMsg(d.files, "delete worksheet", "save failed")
        ELSE IF sheet_not_exist_files # {}
        THEN Left(d.files, FALSE, <<>>, FALSE,
                  <<"step", "delete worksheet", ExecFailed, "missing in">>)
        ELSE Left(d.files, FALSE, <<>>, TRUE,
                  <<"step", "delete worksheet", ExecSucceeded>>)
  IN IF sheet_name = ""
     THEN RaiseStepMsg(fs, "delete worksheet", "empty name")
     ELSE IF Cardinality(sheet_not_exist_files) = Len(fs)
     THEN RaiseStepMsg(fs, "delete worksheet", "no such worksheet")
     ELSE After(delete_worksheet(fs, 1, sheet_name))

\* else: raise ValueError("未知的操作类型: ...")
UnknownBranch(fs) ==
  Left(fs, TRUE, <<"unknown operation">>, TRUE, <<>>)

\* the end of the try of one step: step_msg = "... 执行成功" after the
\* chain, or the outer "except Exception as step_e"; then
\* self.step_results.append({...})
StepResult(operation, sheet_name, left) ==
  [step |-> cur, operation |-> operation, params |-> sheet_name,
   success |-> IF left.raised THEN FALSE ELSE left.step_success,
   message |-> IF left.raised
               THEN <<"step", operation, ExecFailed>> \o left.error_msg
               ELSE <<"step", operation, ExecSucceeded>>]

InitSheets ==
  /\ files \in [1..NumFiles -> {[sheetnames |-> n] :
                                  n \in (SUBSET SheetTitles) \ {{}}}]
  /\ start = files
  /\ op = NoOp
  /\ pc = "steps"
  /\ cur = 1
  /\ \E n \in 1..MaxSteps : ctx = [steps |-> n, step_results |-> <<>>]

SheetStepDone(operation, sheet_name, left) ==
  /\ files' = left.files
  /\ ctx' = [ctx EXCEPT !.step_results =
               Append(@, StepResult(operation, sheet_name, left))]
  /\ cur' = cur + 1
  /\ UNCHANGED <<start, op, pc>>

CreateWorksheetStep ==
  /\ pc = "steps" /\ cur <= ctx.steps
  /\ \E sheet_name \in SheetNameInputs :
       SheetStepDone("create_worksheet", sheet_name,
                     CreateWorksheetBranch(files, sheet_name))

DeleteWorksheetStep ==
  /\ pc = "steps" /\ cur <= ctx.steps
  /\ \E sheet_name \in SheetNameInputs :
       SheetStepDone("delete_worksheet", sheet_name,
                     DeleteWorksheetBranch(files, sheet_name))

UnknownOperationStep ==
  /\ pc = "steps" /\ cur <= ctx.steps
  /\ SheetStepDone("unknown", "", UnknownBranch(files))

NextSheets ==
  \/ CreateWorksheetStep
  \/ DeleteWorksheetStep
  \/ UnknownOperationStep

SpecSheets == InitSheets /\ [][NextSheets]_vars

\* C29: in every recorded step result the flag and the message agree:
\* success is false exactly when the message holds ' 执行失败', and true
\* exactly when it holds ' 执行成功'.
C29_FlagAndMessageAgree ==
  \A k \in DOMAIN ctx.step_results :
    /\ ~ctx.step_results[k].success
         <=> Contains(ctx.step_results[k].message, ExecFailed)
    /\ ctx.step_results[k].success
         <=> Contains(ctx.step_results[k].message, ExecSucceeded)

\* ============================================================ SpecFinish
\* The runs of ProcessingThread on the one ExcelProcessor that
\* init_execution creates: what each run emits and what the processor
\* holds afterwards.  files is file_paths of the run; ctx.workbooks and
\* ctx.temp_files are the keys of the two dicts of the processor;
\* ctx.emitted is what the run has emitted so far.
MaxRuns == 2

\* file_paths: execute_steps refuses an empty list
FilePathLists ==
  {fp \in UNION {[1..n -> 1..NumFiles] : n \in 1..NumFiles} :
     \A i, j \in DOMAIN fp : i # j => fp[i] # fp[j]}

Emitted(signal) ==
  Cardinality({k \in DOMAIN ctx.emitted : ctx.emitted[k] = signal})

\* self.operation_complete.emit(False, error_msg) of one of the except
\* clauses; run returns
CompleteFalse(temp_files) ==
  /\ ctx' = [ctx EXCEPT !.temp_files = temp_files,
                        !.emitted = Append(@, "operation_complete(False)")]
  /\ pc' = "finished"
  /\ UNCHANGED <<files, start, op, cur>>

InitFinish ==
  /\ files = <<>>
  /\ start = <<>>
  /\ op = NoOp
  /\ pc = "idle"
  /\ cur = 1
  /\ ctx = [workbooks |-> {}, temp_files |-> {}, steps |-> 0, todo |-> {},
            emitted |-> <<>>, saved |-> FALSE, runs |-> 0]

\* execute_steps: a new thread on the same processor
StartThread ==
  /\ pc \in {"idle", "finished", "terminated"}
  /\ ctx.runs < MaxRuns
  /\ \E fp \in FilePathLists, n \in 1..MaxSteps :
       /\ files' = fp
       /\ ctx' = [ctx EXCEPT !.steps = n, !.todo = {}, !.emitted = <<>>,
                             !.saved = FALSE, !.runs = @ + 1]
  /\ pc' = "load"
  /\ cur' = 1
  /\ UNCHANGED <<start, op>>

\* load_workbooks, one file: shutil.copy2 raises, or load_workbook raises
\* after temp_files[file_path] was set, or the workbook is loaded
LoadIntoProcessor ==
  /\ pc = "load"
  /\ \E outcome \in {"loaded", "copy raises", "load raises"} :
       IF outcome = "loaded"
       THEN /\ ctx' = [ctx EXCEPT !.temp_files = @ \cup {files[cur]},
                                  !.workbooks = @ \cup {files[cur]}]
            /\ IF cur < Len(files)
               THEN cur' = cur + 1 /\ pc' = pc
               ELSE cur' = 1 /\ pc' = "steps"
            /\ UNCHANGED <<files, start, op>>
       ELSE CompleteFalse(IF outcome = "load raises"
                          THEN ctx.temp_files \cup {files[cur]}
                          ELSE ctx.temp_files)

\* one turn of the loop over the steps: whatever the step raises is caught
StepOfRun ==
  /\ pc = "steps"
  /\ cur <= ctx.steps
  /\ cur' = cur + 1
  /\ UNCHANGED <<files, start, op, pc, ctx>>

\* save_workbooks up to its loop: the output directory is checked
BeginSaveRun ==
  /\ pc = "steps"
  /\ cur > ctx.steps
  /\ \E writable \in BOOLEAN :
       IF writable
       THEN /\ ctx' = [ctx EXCEPT !.todo = ctx.workbooks]
            /\ pc' = "save"
            /\ UNCHANGED <<files, start, op, cur>>
       ELSE CompleteFalse(ctx.temp_files)

\* one turn of the loop of save_workbooks over self.workbooks: wb.save
\* returns or raises, and finally _cleanup_temp_file drops the entry unless
\* unlink raises
SaveOneWorkbook ==
  /\ pc = "save"
  /\ \E f \in ctx.todo, saved \in BOOLEAN, unlinked \in BOOLEAN :
       LET temp_files == IF unlinked THEN ctx.temp_files \ {f}
                         ELSE ctx.temp_files
       IN IF saved
          THEN /\ ctx' = [ctx EXCEPT !.temp_files = temp_files,
                                     !.todo = @ \ {f}]
               /\ UNCHANGED <<files, start, op, pc, cur>>
          ELSE CompleteFalse(temp_files)

\* close_workbooks, step_results_updated.emit, operation_complete.emit(True)
FinishSave ==
  /\ pc = "save"
  /\ ctx.todo = {}
  /\ ctx' = [ctx EXCEPT !.workbooks = {}, !.saved = TRUE,
                        !.emitted = @ \o <<"step_results_updated",
                                           "operation_complete(True)">>]
  /\ pc' = "finished"
  /\ UNCHANGED <<files, start, op, cur>>

\* update_progress finds the dialog cancelled: processing_thread.terminate()
TerminateThread ==
  /\ pc \in {"steps", "save"}
  /\ pc' = "terminated"
  /\ UNCHANGED <<files, start, op, cur, ctx>>

ThreadRuns ==
  \/ LoadIntoProcessor
  \/ StepOfRun
  \/ BeginSaveRun
  \/ SaveOneWorkbook
  \/ FinishSave

NextFinish ==
  \/ StartThread
  \/ ThreadRuns
  \/ TerminateThread

\* a started thread keeps running until run returns or it is terminated
SpecFinish == InitFinish /\ [][NextFinish]_vars /\ WF_vars(ThreadRuns)

Completes ==
  Emitted("operation_complete(True)") + Emitted("operation_complete(False)")

\* what a run has emitted and what the processor holds when it returns
RunEndsWell ==
  /\ Completes <= 1
  /\ Emitted("step_results_updated") <= 1
  /\ (pc = "finished") => Completes = 1
  /\ Emitted("step_results_updated") = 1 =>
       /\ ctx.saved
       /\ ctx.emitted = <<"step_results_updated", "operation_complete(True)">>
  /\ (pc = "finished" /\ ctx.saved) =>
       /\ ctx.workbooks = {}
       /\ ctx.temp_files = {}

\* C30: every run that is not terminated returns and emits
\* operation_complete exactly once; step_results_updated is emitted at most
\* once, only when the save succeeded, and before operation_complete(True);
\* after such a run the processor holds no workbook and no temp file entry.
C30_RunCompletesOnceAndCleansUp ==
  /\ []RunEndsWell
  /\ (pc = "load") ~> (pc \in {"finished", "terminated"})

====
